---- MODULE Spec2Model ----
(***************************************************************************)
(* Model of github.com/mashiike/go-otlp-helper: the OTLP client (channel   *)
(* lifecycle, uploads, cancellation, partial success), the connection      *)
(* fingerprint, and the server multiplexer's middleware chain.             *)
(***************************************************************************)
EXTENDS Integers, Sequences, FiniteSets, TLC

VARIABLES
    cfg,            \* Client.o: per-signal effective options
    conns,          \* Client.conns: connHash -> channel id
    stopContexts,   \* Client.stopContexts: connHash -> stop context id
    stopFuncs,      \* Client.stopFuncs: connHash -> stop context id it cancels
    nextId,         \* allocator of channel / stop-context identities
    objParent,      \* id -> caller context the stop context was derived from
    stopCancelled,  \* ids of stop contexts whose cancel function was called
    closedChans,    \* ids of channels on which Close() was called
    callerCancelled,\* caller contexts that have been cancelled
    wOwner,         \* RWMutex: goroutine that announced / holds the write lock
    wHeld,          \* RWMutex: the announced writer has acquired the lock
    readers,        \* RWMutex: uploads holding the read lock
    start,          \* the goroutine calling Client.Start
    stop,           \* the goroutines calling Client.Stop
    up,             \* the goroutines calling Client.Upload*
    nStarts,        \* number of Start calls made
    stopCancelSeen, \* history: some Stop call observed its own ctx cancelled
    muxMiddlewares, \* ServerMux.middlewares
    entries,        \* ServerMux.trace / metrics / logs entries
    nRegs,          \* number of middleware / handler values registered so far
    grpcServices,   \* services ServerMux.Register put on the RPC server
    req,            \* inbound server requests
    acc,            \* calls of ServerMux.Trace / Metrics / Logs and the entries made
    calc            \* argument and results of the pure functions under evaluation

clientVars == <<cfg, conns, stopContexts, stopFuncs, nextId, objParent,
                stopCancelled, closedChans, callerCancelled, wOwner, wHeld,
                readers, start, stop, up, nStarts, stopCancelSeen>>
muxVars == <<muxMiddlewares, entries, nRegs, grpcServices, req, acc>>
vars == <<cfg, conns, stopContexts, stopFuncs, nextId, objParent,
          stopCancelled, closedChans, callerCancelled, wOwner, wHeld,
          readers, start, stop, up, nStarts, stopCancelSeen,
          muxMiddlewares, entries, nRegs, grpcServices, req, acc, calc>>

----------------------------------------------------------------------------
(* Bounds *)

MaxStarts == 2
MaxElapsed == 2
MaxRegs == 3
MaxLeaves == 2

Signals == {"traces", "metrics", "logs"}
SignalOrder == <<"traces", "metrics", "logs">>
Uploaders == {"u1", "u2"}
Stoppers == {"p1"}
CallerCtxs == {"bg", "c1"}
NoOwner == "none"
Requesters == {"r1", "r2"}
FirstRequester == {"r1"}
Accessors == {"a1", "a2"}

----------------------------------------------------------------------------
(* Client options *)

isGRPCProtocol(so) == so.protocol = "grpc"

isHTTPProtocol(so) == so.protocol \in {"http/json", "http/protobuf"}

httpContentType(so) ==
    IF ~isHTTPProtocol(so) THEN ""
    ELSE IF so.protocol = "http/json" THEN "application/json"
    ELSE IF so.protocol = "http/protobuf" THEN "application/x-protobuf"
    ELSE ""

buildGRPCConnectionInfo_NoGzip(so) ==
    so.host \o so.userAgent
        \o (IF so.scheme # "https" THEN "insecure" ELSE "tls")

\* the byte stream written to the hasher; the digest is a fixed-width
\* injective image of this stream
buildGRPCConnectionInfo(so) ==
    so.host \o so.userAgent
        \o (IF so.scheme # "https" THEN "insecure" ELSE "tls")
        \o (IF so.gzip THEN "gzip" ELSE "")

grpcConnectionInfo(so) == buildGRPCConnectionInfo(so)

SO(p, h, ua, sch, gz, t) ==
    [protocol |-> p, host |-> h, userAgent |-> ua, scheme |-> sch,
     gzip |-> gz, exportTimeout |-> t]

\* effective configurations a constructed client can have
ClientConfigs ==
    { [s \in Signals |->
         IF s = "traces" THEN SO("grpc", "a", "bc", "http", FALSE, 0)
         ELSE IF s = "metrics" THEN SO("grpc", "a", "bc", "http", FALSE, 1)
         ELSE SO("grpc", "a", "bc", "http", TRUE, 0)],
      [s \in Signals |->
         IF s = "traces" THEN SO("http/json", "a", "bc", "http", FALSE, 1)
         ELSE IF s = "metrics" THEN SO("http/protobuf", "a", "bc", "http", FALSE, 0)
         ELSE SO("http/json", "a", "bc", "https", FALSE, 0)],
      [s \in Signals |->
         IF s = "traces" THEN SO("grpc", "a", "bc", "https", FALSE, 1)
         ELSE IF s = "metrics" THEN SO("http/protobuf", "a", "bc", "http", FALSE, 1)
         ELSE SO("grpc", "ab", "c", "https", FALSE, 0)] }

----------------------------------------------------------------------------
(* Contexts *)

callerDone(c) == c \in callerCancelled

\* a stop context is a WithCancel child of the context given to Start
stopCtxDone(id) ==
    IF id = 0 THEN FALSE
    ELSE id \in stopCancelled \/ (id \in DOMAIN objParent /\ callerDone(objParent[id]))

IdleStart == [pc |-> "idle", ctx |-> "bg", sig |-> 1, err |-> "nil"]
IdleStop == [pc |-> "idle", lk |-> "none", ctx |-> "bg", err |-> "nil",
             result |-> "none", closed |-> {}]
NoMsg == [present |-> FALSE, hasPartial |-> FALSE, rejected |-> 0]
NoReply == [kind |-> "none", status |-> 0, contentType |-> "", msg |-> NoMsg]
NoResult == [err |-> "none", errType |-> "", resp |-> NoMsg]
IdleUp == [pc |-> "idle", sig |-> "traces", ctx |-> "bg", stopCtx |-> 0,
           conn |-> 0, sent |-> FALSE, cancelled |-> FALSE, elapsed |-> 0,
           reply |-> NoReply, result |-> NoResult]

InitClientWith(c) ==
    /\ cfg = c
    /\ conns = <<>>
    /\ stopContexts = <<>>
    /\ stopFuncs = <<>>
    /\ nextId = 1
    /\ objParent = <<>>
    /\ stopCancelled = {}
    /\ closedChans = {}
    /\ callerCancelled = {}
    /\ wOwner = NoOwner
    /\ wHeld = FALSE
    /\ readers = {}
    /\ start = IdleStart
    /\ stop = [p \in Stoppers |-> IdleStop]
    /\ up = [u \in Uploaders |-> IdleUp]
    /\ nStarts = 0
    /\ stopCancelSeen = FALSE

\* no pure function is under evaluation
NoCalc == [op |-> "none"]

\* a context without inbound metadata
NoMD == [present |-> FALSE, md |-> <<>>]

IdleReq == [pc |-> "idle", transport |-> "grpc", sig |-> "traces",
            method |-> "", contentType |-> "", body |-> "",
            inbound |-> <<>>, md |-> NoMD, hAtDispatch |-> 0,
            chain |-> <<>>, idx |-> 0, ctx |-> <<>>,
            log |-> <<>>, ret |-> "none", code |-> "none", status |-> 0,
            respContentType |-> "", detail |-> FALSE, retyped |-> "no",
            returned |-> "none"]

\* a goroutine that is not inside mux.Trace() / Metrics() / Logs(); `ret` is
\* the entry its last call returned, `viaNew` that the call went through
\* new<Signal>Entry
IdleAcc == [pc |-> "idle", sig |-> "traces", ret |-> 0, viaNew |-> FALSE]

\* no entry exists: per signal, `current` is the entry the mux points to (0
\* for nil), `made` the number of entries constructed and `routes` the
\* number of httpMux.Handle calls for the signal's path
NoEntries ==
    [call |-> [a \in Accessors |-> IdleAcc],
     current |-> [s \in Signals |-> 0],
     made |-> [s \in Signals |-> 0],
     routes |-> [s \in Signals |-> 0]]

InitMuxIdle ==
    /\ muxMiddlewares = <<>>
    /\ entries = <<>>
    /\ nRegs = 0
    /\ grpcServices = {"unregistered"}
    /\ req = [r \in Requesters |-> IdleReq]
    /\ acc = NoEntries

Init ==
    /\ \E c \in ClientConfigs : InitClientWith(c)
    /\ InitMuxIdle
    /\ calc = NoCalc

----------------------------------------------------------------------------
(* Client.Start *)

\* Start is called and c.mu.Lock() announces the writer: uploads arriving
\* from now on block in RLock (a Start blocked behind another writer has not
\* yet done anything)
StartCall(c) ==
    /\ start.pc \in {"idle", "done"}
    /\ nStarts < MaxStarts
    /\ wOwner = NoOwner
    /\ wOwner' = "start"
    /\ start' = [IdleStart EXCEPT !.pc = "pending", !.ctx = c]
    /\ nStarts' = nStarts + 1
    /\ UNCHANGED muxVars
    /\ UNCHANGED calc
    /\ UNCHANGED <<cfg, conns, stopContexts, stopFuncs, nextId, objParent,
                   stopCancelled, closedChans, callerCancelled, wHeld,
                   readers, stop, up, stopCancelSeen>>

\* RWMutex.Lock, second half: the active readers have left
StartLockAcquire ==
    /\ start.pc = "pending"
    /\ readers = {}
    /\ wHeld' = TRUE
    /\ start' = [start EXCEPT !.pc = "body", !.sig = 1]
    /\ UNCHANGED muxVars
    /\ UNCHANGED calc
    /\ UNCHANGED <<cfg, conns, stopContexts, stopFuncs, nextId, objParent,
                   stopCancelled, closedChans, callerCancelled, wOwner,
                   readers, stop, up, nStarts, stopCancelSeen>>

\* m[k] = v of a Go map
put(m, k, v) == [x \in DOMAIN m \cup {k} |-> IF x = k THEN v ELSE m[x]]

alreadyOpen_Never(connHash) == FALSE

\* startGRPC: if _, ok := c.conns[connHash]; ok { return nil }
alreadyOpen(connHash) == connHash \in DOMAIN conns

\* startGRPC: the table updates for one signal whose channel is missing
startGRPC(so, ctx) ==
    LET connHash == grpcConnectionInfo(so) IN
    /\ stopContexts' = put(stopContexts, connHash, nextId)
    /\ stopFuncs' = put(stopFuncs, connHash, nextId)
    /\ conns' = put(conns, connHash, nextId)
    /\ objParent' = objParent @@ (nextId :> ctx)
    /\ nextId' = nextId + 1

\* one "if isGRPCProtocol { startGRPC }" block of Start; the last signal's
\* block is followed by the deferred Unlock
StartSignal(dialFails) ==
    /\ start.pc = "body"
    /\ LET so == cfg[SignalOrder[start.sig]]
           last == start.sig = Len(SignalOrder)
           needsDial == isGRPCProtocol(so) /\ ~alreadyOpen(grpcConnectionInfo(so))
       IN
       /\ dialFails => needsDial
       /\ IF needsDial /\ ~dialFails
            THEN startGRPC(so, start.ctx)
            ELSE UNCHANGED <<conns, stopContexts, stopFuncs, nextId, objParent>>
       /\ IF dialFails \/ last
            THEN /\ start' = [IdleStart EXCEPT !.pc = "done",
                                 !.err = IF dialFails THEN "dial" ELSE "nil"]
                 /\ wOwner' = NoOwner
                 /\ wHeld' = FALSE
            ELSE /\ start' = [start EXCEPT !.sig = @ + 1]
                 /\ UNCHANGED <<wOwner, wHeld>>
    /\ UNCHANGED muxVars
    /\ UNCHANGED calc
    /\ UNCHANGED <<cfg, stopCancelled, closedChans, callerCancelled,
                   readers, stop, up, nStarts, stopCancelSeen>>

----------------------------------------------------------------------------
(* Client.Stop *)

Range(f) == {f[x] : x \in DOMAIN f}

\* err := ctx.Err(); the goroutine that will take c.mu.Lock() is spawned
StopCall(p, c) ==
    /\ stop[p].pc \in {"idle", "done"}
    /\ stop' = [stop EXCEPT ![p] = [IdleStop EXCEPT !.pc = "select",
                    !.lk = "want", !.ctx = c,
                    !.err = IF callerDone(c) THEN "ctx" ELSE "nil"]]
    /\ UNCHANGED muxVars
    /\ UNCHANGED calc
    /\ UNCHANGED <<cfg, conns, stopContexts, stopFuncs, nextId, objParent,
                   stopCancelled, closedChans, callerCancelled, wOwner, wHeld,
                   readers, start, up, nStarts, stopCancelSeen>>

\* the spawned goroutine's c.mu.Lock(), first half
StopLockAnnounce(p) ==
    /\ stop[p].lk = "want"
    /\ wOwner = NoOwner
    /\ wOwner' = p
    /\ stop' = [stop EXCEPT ![p].lk = "pending"]
    /\ UNCHANGED muxVars
    /\ UNCHANGED calc
    /\ UNCHANGED <<cfg, conns, stopContexts, stopFuncs, nextId, objParent,
                   stopCancelled, closedChans, callerCancelled, wHeld,
                   readers, start, up, nStarts, stopCancelSeen>>

StopLockAcquire_NoWait(p) ==
    /\ stop[p].lk = "pending"
    /\ wHeld' = TRUE
    /\ stop' = [stop EXCEPT ![p].lk = "acquired"]
    /\ UNCHANGED muxVars
    /\ UNCHANGED calc
    /\ UNCHANGED <<cfg, conns, stopContexts, stopFuncs, nextId, objParent,
                   stopCancelled, closedChans, callerCancelled, wOwner,
                   readers, start, up, nStarts, stopCancelSeen>>

\* the spawned goroutine's c.mu.Lock() returns and it closes `acquired`
StopLockAcquire(p) ==
    /\ stop[p].lk = "pending"
    /\ readers = {}
    /\ wHeld' = TRUE
    /\ stop' = [stop EXCEPT ![p].lk = "acquired"]
    /\ UNCHANGED muxVars
    /\ UNCHANGED calc
    /\ UNCHANGED <<cfg, conns, stopContexts, stopFuncs, nextId, objParent,
                   stopCancelled, closedChans, callerCancelled, wOwner,
                   readers, start, up, nStarts, stopCancelSeen>>

cancelAll_Forgotten == {}

\* for _, stopFunc := range c.stopFuncs { stopFunc() }: the contexts cancelled
cancelAll == Range(stopFuncs)

\* select, case <-ctx.Done(): every stop function is called, err = ctx.Err()
StopCtxDone(p) ==
    /\ stop[p].pc = "select"
    /\ callerDone(stop[p].ctx)
    /\ stopCancelled' = stopCancelled \cup cancelAll
    /\ stopCancelSeen' = TRUE
    /\ stop' = [stop EXCEPT ![p].pc = "waitacq", ![p].err = "ctx"]
    /\ UNCHANGED muxVars
    /\ UNCHANGED calc
    /\ UNCHANGED <<cfg, conns, stopContexts, stopFuncs, nextId, objParent,
                   closedChans, callerCancelled, wOwner, wHeld,
                   readers, start, up, nStarts>>

StopReturnValue_CtxFirst(err, n, closeFails) ==
    IF err # "nil" THEN err
    ELSE IF n = 0 THEN "ErrAlreadyClosed"
    ELSE IF closeFails THEN "closeErr"
    ELSE "nil"

\* the value Stop returns, given err (ctx.Err() as Stop saw it), the number
\* of entries of c.conns and whether a Close() failed
StopReturnValue(err, n, closeFails) ==
    IF n = 0 THEN "ErrAlreadyClosed"
    ELSE IF err # "nil" THEN err
    ELSE IF closeFails THEN "closeErr"
    ELSE "nil"

cleared_Kept(table) == table

\* c.conns = make(map[string]*grpc.ClientConn, 3), and so for the other two
cleared(table) == <<>>

\* the part of Stop that runs with the write lock held, up to the deferred
\* Unlock: either case of the select has seen `acquired` closed
StopLocked(p, closeFails) ==
    /\ stop[p].pc \in {"select", "waitacq"}
    /\ stop[p].lk = "acquired"
    /\ closeFails => DOMAIN conns # {}
    /\ IF DOMAIN conns = {}
         THEN /\ stop' = [stop EXCEPT ![p] = [IdleStop EXCEPT !.pc = "done",
                              !.err = stop[p].err,
                              !.result = StopReturnValue(stop[p].err, 0, closeFails)]]
              /\ UNCHANGED <<conns, stopContexts, stopFuncs, closedChans,
                             objParent, stopCancelled>>
         ELSE /\ closedChans' = closedChans \cup Range(conns)
              /\ stop' = [stop EXCEPT ![p] = [IdleStop EXCEPT !.pc = "done",
                              !.err = stop[p].err,
                              !.closed = Range(conns),
                              !.result = StopReturnValue(stop[p].err,
                                             Cardinality(DOMAIN conns), closeFails)]]
              /\ conns' = cleared(conns)
              /\ stopFuncs' = cleared(stopFuncs)
              /\ stopContexts' = cleared(stopContexts)
              \* the stop contexts no table holds are unreachable from now on
              /\ objParent' = [id \in DOMAIN objParent \cap Range(cleared(stopContexts))
                                  |-> objParent[id]]
              /\ stopCancelled' = stopCancelled \cap Range(cleared(stopContexts))
    /\ wOwner' = NoOwner
    /\ wHeld' = FALSE
    /\ UNCHANGED muxVars
    /\ UNCHANGED calc
    /\ UNCHANGED <<cfg, nextId, callerCancelled,
                   readers, start, up, nStarts, stopCancelSeen>>

----------------------------------------------------------------------------
(* Wire forms of an export response *)

Msg(hp, n) == [present |-> TRUE, hasPartial |-> hp, rejected |-> n]

ExportResponses == {Msg(FALSE, 0), Msg(TRUE, 0), Msg(TRUE, 1)}

\* proto.Marshal / protojson.Marshal of an export response: the
\* partial_success field is written when the sub-message is set, and its
\* rejected count when that is non-zero
Marshal(m) ==
    IF ~m.hasPartial THEN <<>>
    ELSE IF m.rejected = 0 THEN <<1>>
    ELSE <<1, m.rejected>>

\* proto.Unmarshal / protojson.Unmarshal into a fresh response
Unmarshal(b) ==
    IF Len(b) = 0 THEN Msg(FALSE, 0)
    ELSE IF Len(b) = 1 THEN Msg(TRUE, 0)
    ELSE Msg(TRUE, b[2])

\* replies that suffice where only the fact of a reply matters
BasicReplies ==
    {[kind |-> "grpc", status |-> 0, contentType |-> "", msg |-> Msg(FALSE, 0)],
     [kind |-> "http", status |-> 200, contentType |-> "application/json",
      msg |-> Msg(FALSE, 0)]}

GRPCReplies ==
    {[kind |-> "grpc", status |-> 0, contentType |-> "", msg |-> m] :
        m \in ExportResponses}
    \cup {[kind |-> "grpc", status |-> 14, contentType |-> "", msg |-> NoMsg]}

HTTPReplies ==
    {[kind |-> "http", status |-> st, contentType |-> ct, msg |-> m] :
        st \in {200, 503},
        ct \in {"application/x-protobuf", "application/json", "text/plain"},
        m \in ExportResponses}

PartialSuccessErrorType_Copied(sig) == "UploadTracesPartialSuccessError"

PartialSuccessErrorType(sig) ==
    IF sig = "traces" THEN "UploadTracesPartialSuccessError"
    ELSE IF sig = "metrics" THEN "UploadMetricsPartialSuccessError"
    ELSE "UploadLogsPartialSuccessError"

Result(e, t, r) == [err |-> e, errType |-> t, resp |-> r]

\* upload<Signal>WithGRPC after Export has returned (resp, err)
uploadWithGRPC(sig, reply) ==
    IF reply.status # 0 THEN Result("status", "", NoMsg)
    ELSE IF reply.msg.present /\ reply.msg.hasPartial
        THEN Result("partial", PartialSuccessErrorType(sig), reply.msg)
    ELSE Result("nil", "", NoMsg)

\* upload<Signal>WithHTTP after client.Do has returned a response
uploadWithHTTP(sig, reply) ==
    IF reply.status # 200 THEN Result("unexpected status code", "", NoMsg)
    ELSE IF reply.contentType \notin {"application/x-protobuf", "application/json"}
        THEN Result("unexpected content type", "", NoMsg)
    ELSE LET respData == Unmarshal(Marshal(reply.msg)) IN
         IF respData.hasPartial
            THEN Result("partial", PartialSuccessErrorType(sig), respData)
            ELSE Result("nil", "", NoMsg)

----------------------------------------------------------------------------
(* Client.Upload<Signal> *)

\* the context the transport call runs under has a deadline
hasDeadline(u) ==
    isGRPCProtocol(cfg[up[u].sig]) /\ cfg[up[u].sig].exportTimeout > 0

deadlinePassed(u) ==
    hasDeadline(u) /\ up[u].elapsed >= cfg[up[u].sig].exportTimeout

\* Done() of the context handed to Export (binary-RPC: the context made by
\* newGRPCContext) or to the HTTP request (the caller's context)
runCtxDone(u) ==
    \/ callerDone(up[u].ctx)
    \/ isGRPCProtocol(cfg[up[u].sig]) /\ (up[u].cancelled \/ deadlinePassed(u))

connOf_Redial(connHash) == IF connHash \in DOMAIN conns THEN conns[connHash] ELSE nextId

\* conn, ok := c.conns[connHash]; 0 stands for the nil channel of a missing key
connOf(connHash) == IF connHash \in DOMAIN conns THEN conns[connHash] ELSE 0

\* Upload<Signal> is called and RLock is granted (an upload blocked in RLock
\* has not yet done anything); the binary-RPC path looks the channel up and
\* either returns ErrNotStarted (deferred RUnlock) or builds its context with
\* newGRPCContext and calls Export; the HTTP path sends the request
UploadCall(u, s, c) ==
    /\ up[u].pc \in {"idle", "done"}
    /\ wOwner = NoOwner
    /\ LET so == cfg[s]
           connHash == grpcConnectionInfo(so)
       IN
       IF isGRPCProtocol(so) /\ connOf(connHash) = 0
         THEN /\ up' = [up EXCEPT ![u] = [IdleUp EXCEPT !.pc = "done", !.sig = s,
                           !.result = Result("ErrNotStarted", "", NoMsg)]]
              /\ UNCHANGED readers
         ELSE /\ readers' = readers \cup {u}
              /\ up' = [up EXCEPT ![u] = [IdleUp EXCEPT !.pc = "inflight",
                           !.sig = s, !.ctx = c, !.sent = TRUE,
                           !.conn = IF isGRPCProtocol(so) THEN connOf(connHash) ELSE 0,
                           !.stopCtx =
                               IF isGRPCProtocol(so) /\ connHash \in DOMAIN stopContexts
                                 THEN stopContexts[connHash] ELSE 0]]
    /\ UNCHANGED muxVars
    /\ UNCHANGED calc
    /\ UNCHANGED <<cfg, conns, stopContexts, stopFuncs, nextId, objParent,
                   stopCancelled, closedChans, callerCancelled, wOwner, wHeld,
                   start, stop, nStarts, stopCancelSeen>>

\* the goroutine of newGRPCContext: case <-stopCtx.Done(): cancel()
WatcherCancel(u) ==
    /\ up[u].pc = "inflight"
    /\ isGRPCProtocol(cfg[up[u].sig])
    /\ ~runCtxDone(u)
    /\ stopCtxDone(up[u].stopCtx)
    /\ up' = [up EXCEPT ![u].cancelled = TRUE]
    /\ UNCHANGED muxVars
    /\ UNCHANGED calc
    /\ UNCHANGED <<cfg, conns, stopContexts, stopFuncs, nextId, objParent,
                   stopCancelled, closedChans, callerCancelled, wOwner, wHeld,
                   readers, start, stop, nStarts, stopCancelSeen>>

\* the server's reply arrives and the upload returns (deferred RUnlock)
UploadReply(u, reply) ==
    /\ up[u].pc = "inflight"
    /\ reply.kind = (IF isGRPCProtocol(cfg[up[u].sig]) THEN "grpc" ELSE "http")
    /\ up' = [up EXCEPT ![u] = [IdleUp EXCEPT !.pc = "done", !.sig = up[u].sig,
                 !.sent = TRUE, !.reply = reply,
                 !.result =
                     IF isGRPCProtocol(cfg[up[u].sig])
                       THEN uploadWithGRPC(up[u].sig, reply)
                       ELSE uploadWithHTTP(up[u].sig, reply)]]
    /\ readers' = readers \ {u}
    /\ UNCHANGED muxVars
    /\ UNCHANGED calc
    /\ UNCHANGED <<cfg, conns, stopContexts, stopFuncs, nextId, objParent,
                   stopCancelled, closedChans, callerCancelled, wOwner, wHeld,
                   start, stop, nStarts, stopCancelSeen>>

\* the transport call ends because its context is done
UploadCtxDone(u) ==
    /\ up[u].pc = "inflight"
    /\ runCtxDone(u)
    /\ \E e \in {"Canceled", "DeadlineExceeded"} :
         /\ e = "DeadlineExceeded" => deadlinePassed(u) /\ ~up[u].cancelled
         /\ e = "Canceled" => up[u].cancelled \/ callerDone(up[u].ctx)
         /\ up' = [up EXCEPT ![u] = [IdleUp EXCEPT !.pc = "done",
                      !.sig = up[u].sig, !.sent = TRUE,
                      !.cancelled = up[u].cancelled,
                      !.result = Result(e, "", NoMsg)]]
    /\ readers' = readers \ {u}
    /\ UNCHANGED muxVars
    /\ UNCHANGED calc
    /\ UNCHANGED <<cfg, conns, stopContexts, stopFuncs, nextId, objParent,
                   stopCancelled, closedChans, callerCancelled, wOwner, wHeld,
                   start, stop, nStarts, stopCancelSeen>>

----------------------------------------------------------------------------
(* Environment: callers' contexts and the clock *)

CancelCaller(c) ==
    /\ c # "bg"
    /\ c \notin callerCancelled
    /\ callerCancelled' = callerCancelled \cup {c}
    /\ UNCHANGED muxVars
    /\ UNCHANGED calc
    /\ UNCHANGED <<cfg, conns, stopContexts, stopFuncs, nextId, objParent,
                   stopCancelled, closedChans, wOwner, wHeld,
                   readers, start, stop, up, nStarts, stopCancelSeen>>

timed(u) == up[u].pc = "inflight" /\ cfg[up[u].sig].exportTimeout > 0

\* one unit of time passes; a call whose context deadline has passed returns
\* before more time passes
Tick ==
    /\ \E u \in Uploaders : timed(u) /\ up[u].elapsed < MaxElapsed
    /\ \A u \in Uploaders : up[u].pc = "inflight" => ~deadlinePassed(u)
    /\ up' = [u \in Uploaders |->
                 IF timed(u) /\ up[u].elapsed < MaxElapsed
                   THEN [up[u] EXCEPT !.elapsed = @ + 1]
                   ELSE up[u]]
    /\ UNCHANGED muxVars
    /\ UNCHANGED calc
    /\ UNCHANGED <<cfg, conns, stopContexts, stopFuncs, nextId, objParent,
                   stopCancelled, closedChans, callerCancelled, wOwner, wHeld,
                   readers, start, stop, nStarts, stopCancelSeen>>

----------------------------------------------------------------------------
(* Specification of the client *)

Next ==
    \/ \E c \in CallerCtxs : StartCall(c)
    \/ StartLockAcquire
    \/ StartSignal(FALSE)
    \/ \E p \in Stoppers, c \in CallerCtxs : StopCall(p, c)
    \/ \E p \in Stoppers : StopLockAnnounce(p)
    \/ \E p \in Stoppers : StopLockAcquire(p)
    \/ \E p \in Stoppers : StopCtxDone(p)
    \/ \E p \in Stoppers : StopLocked(p, FALSE)
    \/ \E u \in Uploaders, s \in Signals, c \in CallerCtxs : UploadCall(u, s, c)
    \/ \E u \in Uploaders : WatcherCancel(u)
    \/ \E u \in Uploaders, r \in BasicReplies : UploadReply(u, r)
    \/ \E u \in Uploaders : UploadCtxDone(u)
    \/ \E c \in CallerCtxs : CancelCaller(c)

Spec == Init /\ [][Next]_vars

----------------------------------------------------------------------------
(* Specification of single calls on the wire: every reply the server can    *)
(* give and the passing of time, without Stop                               *)

NextWire ==
    \/ \E c \in CallerCtxs : StartCall(c)
    \/ StartLockAcquire
    \/ StartSignal(FALSE)
    \/ \E u \in Uploaders, s \in Signals, c \in CallerCtxs : UploadCall(u, s, c)
    \/ \E u \in Uploaders : WatcherCancel(u)
    \/ \E u \in Uploaders, r \in GRPCReplies \cup HTTPReplies : UploadReply(u, r)
    \/ \E u \in Uploaders : UploadCtxDone(u)
    \/ \E c \in CallerCtxs : CancelCaller(c)
    \/ Tick

SpecWire == Init /\ [][NextWire]_vars

----------------------------------------------------------------------------
(* Claims about the client *)

inFlight(u) == up[u].pc = "inflight"

AllHTTP == \A s \in Signals : cfg[s].protocol # "grpc"

\* C2: an upload of a binary-RPC signal made while c.conns has no channel
\* under the signal's fingerprint returns the not-started error and hands
\* nothing to the transport
C2_NotStarted ==
    [][\A u \in Uploaders :
          ( /\ up[u].pc \in {"idle", "done"}
            /\ up'[u] # up[u]
            /\ cfg[up'[u].sig].protocol = "grpc"
            /\ buildGRPCConnectionInfo(cfg[up'[u].sig]) \notin DOMAIN conns )
          => ( /\ up'[u].pc = "done"
               /\ up'[u].result.err = "ErrNotStarted"
               /\ ~up'[u].sent )]_vars

\* an upload returned not-started after a Stop had closed the channels
C2_Witness ==
    \E u \in Uploaders :
        /\ up[u].pc = "done"
        /\ up[u].result.err = "ErrNotStarted"
        /\ closedChans # {}

C4_NoCloseErrorWithoutGRPC ==
    [][\A p \in Stoppers :
          ( /\ AllHTTP
            /\ start.pc = "done"
            /\ callerCancelled = {}
            /\ stop[p].pc \in {"select", "waitacq"}
            /\ stop'[p].pc = "done" )
          => stop'[p].result = "nil"]_vars

\* C5: while an upload is in flight no channel is closed and no table entry
\* is removed, and a Stop completes only when no upload is in flight
C5_StopWaitsForUploads ==
    [][ /\ (\E u \in Uploaders : inFlight(u)) =>
              /\ closedChans' = closedChans
              /\ DOMAIN conns \subseteq DOMAIN conns'
              /\ DOMAIN stopContexts \subseteq DOMAIN stopContexts'
              /\ DOMAIN stopFuncs \subseteq DOMAIN stopFuncs'
        /\ \A p \in Stoppers :
              (stop[p].pc # "done" /\ stop'[p].pc = "done")
              => \A u \in Uploaders : ~inFlight(u) ]_vars

\* a Stop with a live context is blocked behind an in-flight upload
C5_Witness ==
    \E p \in Stoppers, u \in Uploaders :
        /\ stop[p].lk = "pending"
        /\ stop[p].ctx \notin callerCancelled
        /\ inFlight(u)
        /\ conns # <<>>

\* C7 (as claimed): an in-flight upload is cancelled through the client's
\* stop context only if some Stop call has observed its own context cancelled
C7_CancelOnlyByCancelledStop ==
    \A u \in Uploaders : up[u].cancelled => stopCancelSeen

\* C9 (as claimed): an upload of a signal whose export timeout is positive
\* does not stay in flight beyond that timeout, on either protocol
C9_TimeoutBoundsEveryUpload ==
    \A u \in Uploaders :
        (inFlight(u) /\ cfg[up[u].sig].exportTimeout > 0)
        => up[u].elapsed <= cfg[up[u].sig].exportTimeout

\* the server's reply is an export response the client accepts as such
isExportResponse(so, reply) ==
    IF so.protocol = "grpc" THEN reply.kind = "grpc" /\ reply.status = 0
    ELSE /\ reply.kind = "http"
         /\ reply.status = 200
         /\ reply.contentType \in {"application/x-protobuf", "application/json"}

\* C10: an upload whose export response carries a partial-success
\* sub-message returns its signal's partial-success error holding that
\* response; one whose export response carries none returns nil
C10_PartialSuccess ==
    \A u \in Uploaders :
        (up[u].pc = "done" /\ isExportResponse(cfg[up[u].sig], up[u].reply))
        => IF up[u].reply.msg.hasPartial
             THEN /\ up[u].result.err = "partial"
                  /\ up[u].result.resp = up[u].reply.msg
                  /\ up[u].result.errType =
                        CASE up[u].sig = "traces" -> "UploadTracesPartialSuccessError"
                          [] up[u].sig = "metrics" -> "UploadMetricsPartialSuccessError"
                          [] up[u].sig = "logs" -> "UploadLogsPartialSuccessError"
             ELSE up[u].result.err = "nil"

\* a logs upload over HTTP returned a partial-success error whose rejected
\* count is zero, and a metrics upload over binary-RPC returned one too
C10_Witness ==
    \E u, v \in Uploaders :
        /\ up[u].pc = "done" /\ up[u].result.err = "partial"
        /\ cfg[up[u].sig].protocol # "grpc"
        /\ up[u].result.resp.rejected = 0
        /\ up[v].pc = "done" /\ up[v].result.err = "partial"
        /\ cfg[up[v].sig].protocol = "grpc"

----------------------------------------------------------------------------
(* Specification of the connection fingerprint: the options of the three    *)
(* signals are drawn from bounded sets and the client is started            *)

Hosts == {"a", "ab"}
UserAgents == {"c", "bc"}

SignalOptions(protocols) ==
    {SO(p, h, ua, sch, gz, 0) :
        p \in protocols, h \in Hosts, ua \in UserAgents,
        sch \in {"http", "https"}, gz \in BOOLEAN}

InitFP ==
    /\ \E t \in SignalOptions({"grpc"}),
          m \in SignalOptions({"grpc", "http/json"}),
          l \in SignalOptions({"grpc", "http/json"}) :
          InitClientWith([s \in Signals |->
              IF s = "traces" THEN t ELSE IF s = "metrics" THEN m ELSE l])
    /\ InitMuxIdle
    /\ calc = NoCalc

NextFP ==
    \/ \E c \in CallerCtxs : StartCall(c)
    \/ StartLockAcquire
    \/ StartSignal(FALSE)

SpecFP == InitFP /\ [][NextFP]_vars

fingerprintTuple(so) == <<so.host, so.userAgent, so.scheme = "https", so.gzip>>

\* C8: once Start has returned, binary-RPC signals with equal (host,
\* user-agent, TLS, gzip) tuples are served by the same channel, and signals
\* differing in gzip or in TLS by distinct channels
C8_ChannelSharing ==
    (start.pc = "done" /\ start.err = "nil") =>
        \A s, t \in Signals :
            (cfg[s].protocol = "grpc" /\ cfg[t].protocol = "grpc") =>
                LET cs == connOf(buildGRPCConnectionInfo(cfg[s]))
                    ct == connOf(buildGRPCConnectionInfo(cfg[t]))
                IN /\ cs # 0 /\ ct # 0
                   /\ cs \notin closedChans
                   /\ fingerprintTuple(cfg[s]) = fingerprintTuple(cfg[t]) => cs = ct
                   /\ ( \/ cfg[s].gzip # cfg[t].gzip
                        \/ (cfg[s].scheme = "https") # (cfg[t].scheme = "https") )
                      => cs # ct

\* Start has returned for a client where traces and metrics have equal
\* tuples and share a channel while logs differs in gzip only
C8_Witness ==
    /\ start.pc = "done"
    /\ \A s \in Signals : cfg[s].protocol = "grpc"
    /\ fingerprintTuple(cfg["traces"]) = fingerprintTuple(cfg["metrics"])
    /\ cfg["logs"] = [cfg["traces"] EXCEPT !.gzip = ~cfg["traces"].gzip]
    /\ Cardinality(Range(conns)) = 2

----------------------------------------------------------------------------
(* Specification of shutdown against uploads whose server never replies:    *)
(* every goroutine of the client is scheduled fairly                        *)

BlockedConfig ==
    [s \in Signals |->
        IF s = "logs" THEN SO("grpc", "a", "bc", "http", TRUE, 0)
        ELSE SO("grpc", "a", "bc", "http", FALSE, 0)]

InitLive ==
    /\ InitClientWith(BlockedConfig)
    /\ InitMuxIdle
    /\ calc = NoCalc

NextLive ==
    \/ StartCall("bg")
    \/ StartLockAcquire
    \/ StartSignal(FALSE)
    \/ \E p \in Stoppers, c \in CallerCtxs : StopCall(p, c)
    \/ \E p \in Stoppers : StopLockAnnounce(p)
    \/ \E p \in Stoppers : StopLockAcquire(p)
    \/ \E p \in Stoppers : StopCtxDone(p)
    \/ \E p \in Stoppers : StopLocked(p, FALSE)
    \/ \E u \in Uploaders, s \in Signals : UploadCall(u, s, "bg")
    \/ \E u \in Uploaders : WatcherCancel(u)
    \/ \E u \in Uploaders : UploadCtxDone(u)
    \/ \E c \in CallerCtxs : CancelCaller(c)

LiveSpec ==
    /\ InitLive
    /\ [][NextLive]_vars
    /\ WF_vars(StartLockAcquire)
    /\ WF_vars(StartSignal(FALSE))
    /\ \A p \in Stoppers :
         /\ WF_vars(StopLockAnnounce(p))
         /\ WF_vars(StopLockAcquire(p))
         /\ WF_vars(StopCtxDone(p))
         /\ WF_vars(StopLocked(p, FALSE))
    /\ \A u \in Uploaders :
         /\ WF_vars(WatcherCancel(u))
         /\ WF_vars(UploadCtxDone(u))

\* Stop was called with an already-cancelled context and has not yet passed
\* its select, while a binary-RPC upload is waiting for the server
stopCancelledWhileBlocked(p, u) ==
    /\ stop[p].pc = "select"
    /\ stop[p].err = "ctx"
    /\ inFlight(u)
    /\ cfg[up[u].sig].protocol = "grpc"

\* C6: if Stop is called with an already-cancelled context while a
\* binary-RPC upload waits for the server, the upload returns with a
\* cancellation error and Stop returns
C6_CancelledStopTerminates ==
    \A p \in Stoppers, u \in Uploaders :
        /\ stopCancelledWhileBlocked(p, u)
              ~> (up[u].pc = "done" /\ up[u].result.err = "Canceled")
        /\ stopCancelledWhileBlocked(p, u) ~> (stop[p].pc = "done")

\* a Stop whose context was cancelled has closed the channels after an
\* upload was cancelled through the stop context
C6_Witness ==
    \E p \in Stoppers, u \in Uploaders :
        /\ stop[p].pc = "done"
        /\ stop[p].result = "ctx"
        /\ stop[p].closed # {}
        /\ up[u].pc = "done"
        /\ up[u].result.err = "Canceled"
        /\ up[u].cancelled

----------------------------------------------------------------------------
(* ServerMux: registration *)

\* a middleware or handler value is identified by the number of the
\* registration that introduced it
\* `handled` is history: the handler of the latest Handle call that returned
NewEntry == [middlewares |-> <<>>, h |-> 0, handled |-> 0]

\* mux.Trace() / mux.Metrics() / mux.Logs(): the entry, created on first use
\* together with its HTTP route
entryOf(s) == IF s \in DOMAIN entries THEN entries ELSE entries @@ (s :> NewEntry)

newEntryCreates_Always(trace) == TRUE

\* new<Signal>Entry: if mux.trace == nil
newEntryCreates(trace) == trace = 0

\* new<Signal>Entry's bookkeeping: a constructed entry becomes the one the
\* mux points to and its path is handed to httpMux.Handle
entryMade(s) ==
    IF newEntryCreates(acc.current[s])
      THEN [acc EXCEPT !.made[s] = @ + 1, !.current[s] = acc.made[s] + 1,
                       !.routes[s] = @ + 1]
      ELSE acc

heldAfterSnapshot_UntilExportReturns(q) ==
    IF q.pc = "chain" THEN {q.sig}
    ELSE IF q.pc = "run" THEN {q.sig, "mux"}
    ELSE {}

\* the read locks a call holds between its steps, by the name of their owner
\* ("mux" or the entry's signal): getHandler and chainedMiddleware release
\* theirs with a deferred RUnlock before they return
heldAfterSnapshot(q) == {}

\* the locks some call holds in read mode
readLocked == UNION {heldAfterSnapshot(req[r]) : r \in Requesters}

\* ServerMux.Use(m...)
Use(n) ==
    /\ "mux" \notin readLocked
    /\ nRegs + n <= MaxRegs
    /\ muxMiddlewares' = muxMiddlewares \o [i \in 1..n |-> nRegs + i]
    /\ nRegs' = nRegs + n
    /\ UNCHANGED <<entries, grpcServices, req>>
    /\ UNCHANGED acc
    /\ UNCHANGED clientVars
    /\ UNCHANGED calc

\* mux.<Signal>().Use(m...)
EntryUse(s, n) ==
    /\ s \notin DOMAIN entries => "mux" \notin readLocked
    /\ s \notin readLocked
    /\ nRegs + n <= MaxRegs
    /\ entries' = [entryOf(s) EXCEPT
                      ![s].middlewares = @ \o [i \in 1..n |-> nRegs + i]]
    /\ nRegs' = nRegs + n
    /\ acc' = entryMade(s)
    /\ UNCHANGED <<muxMiddlewares, grpcServices, req>>
    /\ UNCHANGED clientVars
    /\ UNCHANGED calc

EntryHandle_KeepFirst(s) ==
    /\ s \notin DOMAIN entries => "mux" \notin readLocked
    /\ s \notin readLocked
    /\ nRegs + 1 <= MaxRegs
    /\ entries' = [entryOf(s) EXCEPT
                      ![s].h = IF @ = 0 THEN nRegs + 1 ELSE @,
                      ![s].handled = nRegs + 1]
    /\ nRegs' = nRegs + 1
    /\ acc' = entryMade(s)
    /\ UNCHANGED <<muxMiddlewares, grpcServices, req>>
    /\ UNCHANGED clientVars
    /\ UNCHANGED calc

\* mux.<Signal>().Handle(handler)
EntryHandle(s) ==
    /\ s \notin DOMAIN entries => "mux" \notin readLocked
    /\ s \notin readLocked
    /\ nRegs + 1 <= MaxRegs
    /\ entries' = [entryOf(s) EXCEPT ![s].h = nRegs + 1,
                                     ![s].handled = nRegs + 1]
    /\ nRegs' = nRegs + 1
    /\ acc' = entryMade(s)
    /\ UNCHANGED <<muxMiddlewares, grpcServices, req>>
    /\ UNCHANGED clientVars
    /\ UNCHANGED calc

\* mux.Trace() / Metrics() / Logs(), first lock section: get<Signal>Entry
\* reads the mux's pointer under the read lock, and the call returns the
\* entry if there is one
getEntry(a, s) ==
    /\ acc.call[a].pc \in {"idle", "done"}
    /\ acc' = [acc EXCEPT !.call[a] =
                  IF acc.current[s] # 0
                    THEN [pc |-> "done", sig |-> s, ret |-> acc.current[s],
                          viaNew |-> FALSE]
                    ELSE [pc |-> "new", sig |-> s, ret |-> 0, viaNew |-> TRUE]]
    /\ UNCHANGED <<muxMiddlewares, entries, nRegs, grpcServices, req>>
    /\ UNCHANGED clientVars
    /\ UNCHANGED calc

\* mux.Trace() / Metrics() / Logs(), second lock section: new<Signal>Entry
\* under the write lock, and the call returns the mux's pointer
newEntry(a) ==
    /\ acc.call[a].pc = "new"
    /\ "mux" \notin readLocked
    /\ LET s == acc.call[a].sig
           after == entryMade(s)
       IN /\ acc' = [after EXCEPT !.call[a] =
                        [pc |-> "done", sig |-> s, ret |-> after.current[s],
                         viaNew |-> TRUE]]
          /\ entries' = IF newEntryCreates(acc.current[s])
                          THEN [x \in DOMAIN entries \cup {s} |->
                                   IF x = s THEN NewEntry ELSE entries[x]]
                          ELSE entries
    /\ UNCHANGED <<muxMiddlewares, nRegs, grpcServices, req>>
    /\ UNCHANGED clientVars
    /\ UNCHANGED calc

\* ServerMux.Register: the services of the entries that exist are put on the
\* RPC server, which then starts serving
Register ==
    /\ grpcServices = {"unregistered"}
    /\ grpcServices' = DOMAIN entries
    /\ UNCHANGED <<muxMiddlewares, entries, nRegs, req>>
    /\ UNCHANGED acc
    /\ UNCHANGED clientVars
    /\ UNCHANGED calc

----------------------------------------------------------------------------
(* ServerMux: dispatch *)

Layer(k, id) == [kind |-> k, id |-> id]

RECURSIVE wrapFrom(_, _, _)
\* for i := i0; i >= 0; i-- { wrapped = middlewares[i](wrapped) }
wrapFrom(middlewares, i, wrapped) ==
    IF i < 1 THEN wrapped
    ELSE wrapFrom(middlewares, i - 1, <<Layer("signal", middlewares[i])>> \o wrapped)

getHandler_Reversed(e) ==
    [i \in 1..Len(e.middlewares) |->
        Layer("signal", e.middlewares[Len(e.middlewares) + 1 - i])]
    \o <<Layer("handler", e.h)>>

\* <signal>Entry.getHandler: the handler wrapped by the entry's middleware,
\* written as the layers a call passes through, outermost first
getHandler(e) == wrapFrom(e.middlewares, Len(e.middlewares), <<Layer("handler", e.h)>>)

RECURSIVE chainFrom(_, _, _)
\* for i := i0; i >= 0; i-- { chained = h -> middlewares[i](chained(h)) }
chainFrom(middlewares, i, chained) ==
    IF i < 1 THEN chained
    ELSE chainFrom(middlewares, i - 1, <<Layer("cross", middlewares[i])>> \o chained)

\* ServerMux.chainedMiddleware: the composed middleware, written as the
\* layers it puts in front of the handler it is applied to
chainedMiddleware(middlewares) ==
    IF Len(middlewares) = 0 THEN <<>>
    ELSE chainFrom(middlewares, Len(middlewares) - 1,
                   <<Layer("cross", middlewares[Len(middlewares)])>>)

grpcCodeToHTTPStatus_TwoClasses(code) ==
    CASE code = "OK" -> 200
      [] code \in {"InvalidArgument", "NotFound", "AlreadyExists", "PermissionDenied",
                   "FailedPrecondition", "OutOfRange", "Unauthenticated"} -> 400
      [] OTHER -> 500

grpcCodeToHTTPStatus(code) ==
    CASE code = "OK" -> 200
      [] code = "Canceled" -> 408
      [] code = "Unknown" -> 500
      [] code = "InvalidArgument" -> 400
      [] code = "DeadlineExceeded" -> 504
      [] code = "NotFound" -> 404
      [] code = "AlreadyExists" -> 409
      [] code = "PermissionDenied" -> 403
      [] code = "ResourceExhausted" -> 429
      [] code = "FailedPrecondition" -> 412
      [] code = "Aborted" -> 409
      [] code = "OutOfRange" -> 400
      [] code = "Unimplemented" -> 501
      [] code = "Internal" -> 500
      [] code = "Unavailable" -> 503
      [] code = "DataLoss" -> 500
      [] code = "Unauthenticated" -> 401
      [] OTHER -> 500

\* header and metadata entries are <<key, value>> pairs; a key has an HTTP
\* spelling (canonical MIME form) and a metadata spelling (lower case)
lowerKey(k) ==
    CASE k = "Api-Key" -> "api-key"
      [] k = "Hoge" -> "hoge"
      [] OTHER -> k

canonicalKey(k) ==
    CASE k = "api-key" -> "Api-Key"
      [] k = "hoge" -> "Hoge"
      [] OTHER -> k

\* ServerMux.ServeHTTP: md[k] = v for every header, installed on the context
mdOfHeader(header) == [present |-> TRUE, md |-> header]

\* metadata.FromIncomingContext: a copy whose keys are in lower case
FromIncomingContext(c) ==
    IF ~c.present THEN [md |-> {}, ok |-> FALSE]
    ELSE [md |-> {<<lowerKey(e[1]), e[2]>> : e \in c.md}, ok |-> TRUE]

HeadersFromContext_Set(c) ==
    LET got == FromIncomingContext(c) IN
    IF ~got.ok THEN [headers |-> {}, ok |-> FALSE]
    ELSE [headers |-> {<<canonicalKey(e[1]), e[2]>> : e \in
                          {x \in got.md : \A y \in got.md : y[1] = x[1] => y[2] = x[2]}},
          ok |-> TRUE]

\* HeadersFromContext: headers.Add(k, vv) for every value of every key
HeadersFromContext(c) ==
    LET got == FromIncomingContext(c) IN
    IF ~got.ok THEN [headers |-> {}, ok |-> FALSE]
    ELSE [headers |-> {<<canonicalKey(e[1]), e[2]>> : e \in got.md}, ok |-> TRUE]

\* the status the HTTP bridge writes for what the chain returned: an error
\* that carries no RPC status becomes Internal
proxyStatusOf(out) == IF out = "error" THEN "Internal" ELSE out

\* Export hands the chain's error to the RPC server as it is; the server
\* reports an error that carries no RPC status as Unknown
grpcServerStatusOf(out) == IF out = "error" THEN "Unknown" ELSE out

\* the reply a finished call gives on its transport
Finish(q, out) ==
    LET code == IF q.transport = "http" THEN proxyStatusOf(out)
                ELSE IF q.transport = "grpc" THEN grpcServerStatusOf(out)
                ELSE out
    IN [q EXCEPT !.pc = "done", !.ret = out, !.code = code,
                 !.status = IF q.transport = "http" THEN grpcCodeToHTTPStatus(code) ELSE 0,
                 !.respContentType = IF q.transport = "http" THEN q.contentType ELSE ""]

\* the latest handler a returned Handle call registered for the signal
handledOf(s) == IF s \in DOMAIN entries THEN entries[s].handled ELSE 0

\* a panic left a goroutine of the RPC server, which does not recover it: the
\* process is gone
serverDown == \E r \in Requesters : req[r].pc = "panicked"

\* a binary-RPC export call arrives: the RPC server answers Unimplemented
\* for a service that was not registered, else it calls the entry's Export
GRPCRequest(r, s, md) ==
    /\ req[r].pc \in {"idle", "done"}
    /\ ~serverDown
    /\ grpcServices # {"unregistered"}
    /\ LET q == [IdleReq EXCEPT !.transport = "grpc", !.sig = s, !.inbound = md,
                                !.md = [present |-> TRUE, md |-> md],
                                !.hAtDispatch = handledOf(s)]
       IN
       req' = [req EXCEPT ![r] =
                  IF s \in grpcServices THEN [q EXCEPT !.pc = "export"]
                  ELSE Finish(q, "Unimplemented")]
    /\ UNCHANGED <<muxMiddlewares, entries, nRegs, grpcServices>>
    /\ UNCHANGED acc
    /\ UNCHANGED clientVars
    /\ UNCHANGED calc

proxyServeHTTP_AnyMethod(method, contentType) ==
    IF contentType \notin {"application/x-protobuf", "application/json"} THEN 415
    ELSE 0

\* proxyHandler.ServeHTTP: the status it rejects the request with, 0 if it
\* goes on to decode the body
proxyServeHTTP(method, contentType) ==
    IF method # "POST" THEN 405
    ELSE IF contentType \notin {"application/x-protobuf", "application/json"} THEN 415
    ELSE 0

\* proto.Unmarshal of the body: no bytes decode to the zero-valued request
protoUnmarshal(body) == body # "malformed"

\* UnmarshalJSON: json.Unmarshal of the body into `any` comes first, and it
\* fails on no bytes
UnmarshalJSON(body) == body = "valid"

\* the InvalidArgument status of a body that does not decode carries an
\* ErrorInfo detail on the JSON path only
decodeErrorDetail(contentType) == contentType = "application/json"

\* ServeHTTP of the mux and of the proxy handler up to the call of Export:
\* metadata, route lookup, method check, content-type switch, decoding
HTTPRequest(r, s, method, contentType, body, header) ==
    /\ req[r].pc \in {"idle", "done"}
    /\ ~serverDown
    /\ LET q == [IdleReq EXCEPT !.transport = "http", !.sig = s,
                                !.method = method, !.contentType = contentType,
                                !.body = body, !.inbound = header,
                                !.md = mdOfHeader(header),
                                !.hAtDispatch = handledOf(s)]
           front == proxyServeHTTP(method, contentType)
           decoded == IF contentType = "application/x-protobuf"
                        THEN protoUnmarshal(body) ELSE UnmarshalJSON(body)
       IN
       req' = [req EXCEPT ![r] =
                  IF s \notin DOMAIN entries
                    THEN [q EXCEPT !.pc = "done", !.code = "NotFound", !.status = 404,
                             !.respContentType =
                                 IF contentType \in {"application/x-protobuf", "application/json"}
                                   THEN contentType ELSE "text/plain"]
                  ELSE IF front # 0
                    THEN [q EXCEPT !.pc = "done", !.status = front,
                                   !.respContentType = "text/plain"]
                  ELSE IF ~decoded
                    THEN [Finish(q, "InvalidArgument") EXCEPT
                             !.detail = decodeErrorDetail(contentType)]
                  ELSE [q EXCEPT !.pc = "export"]]
    /\ UNCHANGED <<muxMiddlewares, entries, nRegs, grpcServices>>
    /\ UNCHANGED acc
    /\ UNCHANGED clientVars
    /\ UNCHANGED calc

\* Export called in-process with a context that carries no inbound metadata
DirectExport(r, s) ==
    /\ req[r].pc \in {"idle", "done"}
    /\ ~serverDown
    /\ s \in DOMAIN entries
    /\ req' = [req EXCEPT ![r] =
                  [IdleReq EXCEPT !.pc = "export", !.transport = "direct", !.sig = s,
                                  !.hAtDispatch = handledOf(s)]]
    /\ UNCHANGED <<muxMiddlewares, entries, nRegs, grpcServices>>
    /\ UNCHANGED acc
    /\ UNCHANGED clientVars
    /\ UNCHANGED calc

\* Export, first lock section: base, ok := e.getHandler()
ExportGetHandler(r) ==
    /\ req[r].pc = "export"
    /\ ~serverDown
    /\ LET e == entries[req[r].sig] IN
       req' = [req EXCEPT ![r] =
                  IF e.h = 0 THEN Finish(req[r], "Unimplemented")
                  ELSE [req[r] EXCEPT !.pc = "chain", !.chain = getHandler(e)]]
    /\ UNCHANGED <<muxMiddlewares, entries, nRegs, grpcServices>>
    /\ UNCHANGED acc
    /\ UNCHANGED clientVars
    /\ UNCHANGED calc

\* Export, second lock section: h := e.mux.chainedMiddleware()(base)
ExportChain(r) ==
    /\ req[r].pc = "chain"
    /\ ~serverDown
    /\ req' = [req EXCEPT ![r].pc = "run", ![r].idx = 1,
                  ![r].chain = chainedMiddleware(muxMiddlewares) \o req[r].chain]
    /\ UNCHANGED <<muxMiddlewares, entries, nRegs, grpcServices>>
    /\ UNCHANGED acc
    /\ UNCHANGED clientVars
    /\ UNCHANGED calc

\* what a layer can return: a response ("OK"), an error carrying an RPC
\* status (named by its code) or an error carrying none ("error")
MiddlewareReturns == {"OK", "Unauthenticated", "error"}
HandlerReturns == {"OK", "PermissionDenied", "Internal", "error"}

\* the RPC status codes, and a code the package does not name
Codes ==
    {"OK", "Canceled", "Unknown", "InvalidArgument", "DeadlineExceeded",
     "NotFound", "AlreadyExists", "PermissionDenied", "ResourceExhausted",
     "FailedPrecondition", "Aborted", "OutOfRange", "Unimplemented",
     "Internal", "Unavailable", "DataLoss", "Unauthenticated"}
UnnamedCode == "Code(17)"

exportOutcome_ErrorsAsInternal(out) == IF out = "OK" THEN "OK" ELSE "Internal"

\* Export after the chain returned (resp, err): the error as it is, a
\* response of the signal's type as it is, and Internal for a response of
\* another type
exportOutcome(out) == IF out = "OtherResponse" THEN "Internal" ELSE out

\* req.(*TraceRequest) on a message of another type panics before the
\* per-signal chain is entered: net/http recovers the panic of a request's
\* goroutine and drops the connection without a response, the RPC server
\* does not recover it
assertionPanics(q) ==
    [q EXCEPT !.pc = IF q.transport = "http" THEN "done" ELSE "panicked",
              !.ret = "panic", !.code = "panic"]

\* a cross-signal middleware, which handles proto.Message values, hands
\* a message of another type on: to its next handler as the request, or
\* to its caller as the response
CrossRetypes(r, how) ==
    /\ req[r].pc = "run"
    /\ ~serverDown
    /\ req[r].chain[req[r].idx].kind = "cross"
    /\ req[r].retyped = "no"
    /\ LET q == req[r]
           layer == q.chain[q.idx]
           ran == [q EXCEPT !.retyped = how,
                            !.log = Append(@, [layer |-> layer, saw |-> q.ctx,
                                               hdr |-> HeadersFromContext(q.md)])]
       IN req' = [req EXCEPT ![r] =
                     IF how = "response"
                       THEN Finish(ran, exportOutcome("OtherResponse"))
                       ELSE [ran EXCEPT !.idx = @ + 1, !.ctx = Append(@, layer.id)]]
    /\ UNCHANGED <<muxMiddlewares, entries, nRegs, grpcServices>>
    /\ UNCHANGED acc
    /\ UNCHANGED clientVars
    /\ UNCHANGED calc

\* the next layer of the chain runs with the context it was handed: a
\* middleware either puts its value into the context and calls next, or
\* returns an error without calling next; the handler returns its result;
\* `returned` is what the latest layer to return gave back
LayerReturns(r, out) ==
    /\ req[r].pc = "run"
    /\ ~serverDown
    /\ LET q == req[r]
           layer == q.chain[q.idx]
           ran == [q EXCEPT !.returned = out,
                            !.log = Append(@, [layer |-> layer, saw |-> q.ctx,
                                               hdr |-> HeadersFromContext(q.md)])]
       IN
       /\ req' = [req EXCEPT ![r] =
                     IF layer.kind # "cross" /\ q.retyped = "request"
                       THEN assertionPanics(q)
                     ELSE IF layer.kind = "handler" \/ out # "OK"
                       THEN Finish(ran, exportOutcome(out))
                       ELSE [ran EXCEPT !.idx = @ + 1, !.ctx = Append(@, layer.id)]]
    /\ UNCHANGED <<muxMiddlewares, entries, nRegs, grpcServices>>
    /\ UNCHANGED acc
    /\ UNCHANGED clientVars
    /\ UNCHANGED calc

\* a layer returning one of the results drawn for its kind
RunLayer(r, out) ==
    /\ req[r].pc = "run"
    /\ out \in (IF req[r].chain[req[r].idx].kind = "handler"
                  THEN HandlerReturns ELSE MiddlewareReturns)
    /\ LayerReturns(r, out)

\* HTTP requests by method, content type and body
HTTPShapes ==
    {<<"POST", "application/x-protobuf", "valid">>,
     <<"POST", "application/json", "valid">>,
     <<"POST", "application/x-protobuf", "malformed">>,
     <<"POST", "application/json", "malformed">>,
     <<"POST", "text/plain", "valid">>,
     <<"GET", "application/json", "valid">>}

\* the headers of an HTTP request and the metadata of a binary-RPC call
BasicHeader == {<<"Api-Key", "k1">>}
BasicMetadata == {<<"api-key", "k1">>}

\* the signals the program under test registers on; the third one's path and
\* service stay without an entry
RegisteredSignals == {"traces", "metrics"}

NextMux ==
    \/ \E n \in 1..2 : Use(n)
    \/ \E s \in RegisteredSignals, n \in 1..2 : EntryUse(s, n)
    \/ \E s \in RegisteredSignals : EntryHandle(s)
    \/ Register
    \/ \E r \in FirstRequester, s \in Signals : GRPCRequest(r, s, BasicMetadata)
    \/ \E r \in FirstRequester, s \in Signals, x \in HTTPShapes :
          HTTPRequest(r, s, x[1], x[2], x[3], BasicHeader)
    \/ \E r \in FirstRequester : ExportGetHandler(r)
    \/ \E r \in FirstRequester : ExportChain(r)
    \/ \E r \in FirstRequester, out \in MiddlewareReturns \cup HandlerReturns :
          RunLayer(r, out)

InitMux ==
    /\ InitClientWith(BlockedConfig)
    /\ InitMuxIdle
    /\ calc = NoCalc

SpecMux == InitMux /\ [][NextMux]_vars

----------------------------------------------------------------------------
(* Specification of concurrent dispatch: two calls of the traces service    *)
(* against registrations                                                    *)

NextServe ==
    \/ Use(1)
    \/ EntryUse("traces", 1)
    \/ EntryHandle("traces")
    \/ Register
    \/ \E r \in Requesters : GRPCRequest(r, "traces", BasicMetadata)
    \/ \E r \in Requesters : ExportGetHandler(r)
    \/ \E r \in Requesters : ExportChain(r)
    \/ \E r \in Requesters, out \in {"OK", "Unauthenticated"} : RunLayer(r, out)

SpecServe == InitMux /\ [][NextServe]_vars

----------------------------------------------------------------------------
(* Specification of the entry accessors: concurrent calls of mux.Trace(),   *)
(* mux.Metrics() and mux.Logs(), alone and followed by Handle               *)

NextAccess ==
    \/ \E a \in Accessors, s \in Signals : getEntry(a, s)
    \/ \E a \in Accessors : newEntry(a)
    \/ \E s \in RegisteredSignals : EntryHandle(s)

SpecAccess == InitMux /\ [][NextAccess]_vars

----------------------------------------------------------------------------
(* Specification of the HTTP bridge and of inbound metadata: requests of    *)
(* every shape against a serving mux whose traces signal has a middleware   *)
(* and a handler under one cross-signal middleware                          *)

InitBridge ==
    /\ InitClientWith(BlockedConfig)
    /\ muxMiddlewares = <<1>>
    /\ entries = ("traces" :> [middlewares |-> <<2>>, h |-> 3, handled |-> 3])
    /\ nRegs = 3
    /\ grpcServices = {"traces"}
    /\ req = [r \in Requesters |-> IdleReq]
    /\ acc = [NoEntries EXCEPT !.current["traces"] = 1, !.made["traces"] = 1,
                               !.routes["traces"] = 1]
    /\ calc = NoCalc

BridgeShapes ==
    {"POST", "GET"}
        \X {"application/x-protobuf", "application/json", "text/plain"}
        \X {"valid", "malformed", "empty"}

HTTPHeaderSets ==
    {{}, BasicHeader,
     {<<"Api-Key", "k1">>, <<"Hoge", "fuga">>, <<"Hoge", "tora">>}}

GRPCMetadataSets ==
    {{}, BasicMetadata,
     {<<"api-key", "k1">>, <<"hoge", "fuga">>, <<"hoge", "tora">>}}

NextBridge ==
    \/ \E r \in FirstRequester, s \in Signals, md \in GRPCMetadataSets : GRPCRequest(r, s, md)
    \/ \E r \in FirstRequester, s \in Signals, x \in BridgeShapes, h \in HTTPHeaderSets :
          HTTPRequest(r, s, x[1], x[2], x[3], h)
    \/ \E r \in FirstRequester, s \in Signals : DirectExport(r, s)
    \/ \E r \in FirstRequester : ExportGetHandler(r)
    \/ \E r \in FirstRequester : ExportChain(r)
    \/ \E r \in FirstRequester, out \in Codes \cup {UnnamedCode, "error"} :
          LayerReturns(r, out)

SpecBridge == InitBridge /\ [][NextBridge]_vars

----------------------------------------------------------------------------
(* Specification of the untyped layer: calls on both transports against a   *)
(* cross-signal middleware that may change the type of the message          *)

NextTyped ==
    \/ \E r \in Requesters : GRPCRequest(r, "traces", BasicMetadata)
    \/ \E r \in Requesters :
          HTTPRequest(r, "traces", "POST", "application/json", "valid", BasicHeader)
    \/ \E r \in Requesters : ExportGetHandler(r)
    \/ \E r \in Requesters : ExportChain(r)
    \/ \E r \in Requesters, out \in {"OK", "Unauthenticated"} : RunLayer(r, out)
    \/ \E r \in Requesters, how \in {"request", "response"} : CrossRetypes(r, how)

SpecTyped == InitBridge /\ [][NextTyped]_vars

----------------------------------------------------------------------------
(* Client options: NewClient builds each signal's options from its own and   *)
(* the base ones                                                            *)

\* a *url.URL; the nil pointer is NoURL
URL(sch, h, p) == [nil |-> FALSE, scheme |-> sch, host |-> h, path |-> p]
NoURL == [nil |-> TRUE, scheme |-> "", host |-> "", path |-> <<>>]

\* (*url.URL).JoinPath for a path without dot segments
JoinPath(u, elem) == [u EXCEPT !.path = @ \o elem]

allowedProtocols == {"grpc", "http/json", "http/protobuf"}

\* a map[string]string is a function on its keys; the nil map reads as the
\* empty one
NoHeaders == [k \in {} |-> ""]

mergeHeaders_BaseWins(soHeaders, oHeaders) ==
    [k \in DOMAIN soHeaders \cup DOMAIN oHeaders |->
        IF k \in DOMAIN oHeaders THEN oHeaders[k] ELSE soHeaders[k]]

\* fillDefaults: for key, value := range o.headers { if _, ok :=
\* so.headers[key]; !ok { so.headers[key] = value } }
mergeHeaders(soHeaders, oHeaders) ==
    [k \in DOMAIN soHeaders \cup DOMAIN oHeaders |->
        IF k \in DOMAIN soHeaders THEN soHeaders[k] ELSE oHeaders[k]]

signalEndpoint_AlwaysJoin(protocol, signalType, oEndpoint) ==
    JoinPath(oEndpoint, <<"v1", signalType>>)

\* fillDefaults: the endpoint of a signal that has none of its own; a nil
\* base endpoint is returned as it is for binary-RPC and dereferenced by
\* JoinPath for the HTTP protocols
signalEndpoint(protocol, signalType, oEndpoint) ==
    IF protocol \in {"http/json", "http/protobuf"}
      THEN JoinPath(oEndpoint, <<"v1", signalType>>)
      ELSE oEndpoint

\* clientSignalsOptions.fillDefaults: "panic", "error", or the filled options
fillDefaults(so, signalType, o) ==
    LET userAgent == IF so.userAgent = "" THEN o.userAgent ELSE so.userAgent
        protocol == IF so.protocol = "" THEN o.protocol ELSE so.protocol
        gzip == IF so.gzip = "nil" THEN o.gzip ELSE so.gzip
        exportTimeout == IF so.exportTimeout = 0 THEN o.exportTimeout ELSE so.exportTimeout
        joins == so.endpoint.nil /\ protocol \in {"http/json", "http/protobuf"}
        endpoint == IF so.endpoint.nil
                      THEN signalEndpoint(protocol, signalType, o.endpoint)
                      ELSE so.endpoint
    IN IF protocol \notin allowedProtocols THEN [outcome |-> "error"]
       ELSE IF joins /\ o.endpoint.nil THEN [outcome |-> "panic"]
       ELSE IF endpoint.nil THEN [outcome |-> "error"]
       ELSE [outcome |-> "ok",
             so |-> [protocol |-> protocol, userAgent |-> userAgent,
                     gzip |-> gzip, exportTimeout |-> exportTimeout,
                     endpoint |-> endpoint, host |-> endpoint.host,
                     scheme |-> endpoint.scheme,
                     headers |-> mergeHeaders(so.headers, o.headers)]]

\* clientOptions.build: the defaults of the base options, then fillDefaults
\* for traces, metrics and logs in this order, stopping at the first failure
build(o) ==
    LET b == [o EXCEPT !.userAgent = IF @ = "" THEN "go-otlp-helper" ELSE @,
                       !.gzip = IF @ = "nil" THEN FALSE ELSE @,
                       !.protocol = IF @ = "" THEN "grpc" ELSE @]
        t == fillDefaults(o.traces, "traces", b)
        m == fillDefaults(o.metrics, "metrics", b)
        l == fillDefaults(o.logs, "logs", b)
    IN IF t.outcome # "ok" THEN [stage |-> t.outcome, raw |-> o]
       ELSE IF m.outcome # "ok" THEN [stage |-> m.outcome, raw |-> o]
       ELSE IF l.outcome # "ok" THEN [stage |-> l.outcome, raw |-> o]
       ELSE [stage |-> "built", raw |-> o,
             traces |-> t.so, metrics |-> m.so, logs |-> l.so]

\* newGRPCContext: metadata.New(so.headers), if there are any
grpcOutgoingMetadata(so) == {<<lowerKey(k), so.headers[k]>> : k \in DOMAIN so.headers}

\* upload<Signal>WithHTTP: Content-Type and User-Agent, then Header.Set of
\* every header of the signal
httpRequestHeader(so) ==
    LET own == {<<canonicalKey(k), so.headers[k]>> : k \in DOMAIN so.headers}
        std == {<<"Content-Type", httpContentType(so)>>, <<"User-Agent", so.userAgent>>}
    IN own \cup {e \in std : \A x \in own : x[1] # e[1]}

\* the headers an upload of the signal sends
sentHeaders(so) ==
    IF isGRPCProtocol(so) THEN grpcOutgoingMetadata(so) ELSE httpRequestHeader(so)

RawSignal(ep, p, h) ==
    [endpoint |-> ep, protocol |-> p, headers |-> h,
     userAgent |-> "", gzip |-> "nil", exportTimeout |-> 0]

BaseURLs == {NoURL, URL("http", "a", <<>>), URL("https", "ab", <<"otlp">>)}
SignalURL == URL("http", "sig", <<"custom">>)
BaseHeaderMaps ==
    {NoHeaders, ("Hoge" :> "fuga"), ("Hoge" :> "fuga") @@ ("Api-Key" :> "base")}
SignalHeaderMaps ==
    {NoHeaders, ("Api-Key" :> "dummy"), ("Api-Key" :> "dummy") @@ ("Hoge" :> "tora")}

\* the options as NewClient holds them after applying the caller's
\* ClientOptions and before build
RawOptions ==
    {[stage |-> "raw", endpoint |-> ep, protocol |-> p, headers |-> h,
      userAgent |-> "", gzip |-> "nil", exportTimeout |-> 0,
      traces |-> tr, metrics |-> RawSignal(NoURL, "", NoHeaders), logs |-> lg] :
        ep \in BaseURLs, p \in {"", "http/json", "bogus"}, h \in BaseHeaderMaps,
        tr \in {RawSignal(e, q, g) : e \in {NoURL, SignalURL},
                                     q \in {"", "grpc", "http/protobuf"},
                                     g \in SignalHeaderMaps},
        lg \in {RawSignal(e, q, NoHeaders) : e \in {NoURL, SignalURL},
                                             q \in {"", "http/json"}}}

InitOpt ==
    /\ \E o \in RawOptions : InitClientWith(o)
    /\ InitMuxIdle
    /\ calc = NoCalc

\* NewClient: o.apply(opts...) ends with o.build()
NewClientBuild ==
    /\ cfg.stage = "raw"
    /\ cfg' = build(cfg)
    /\ UNCHANGED muxVars
    /\ UNCHANGED calc
    /\ UNCHANGED <<conns, stopContexts, stopFuncs, nextId, objParent,
                   stopCancelled, closedChans, callerCancelled, wOwner, wHeld,
                   readers, start, stop, up, nStarts, stopCancelSeen>>

NextOpt == NewClientBuild

SpecOpt == InitOpt /\ [][NextOpt]_vars

\* C18: the headers an upload of a signal sends are, under the transport's
\* spelling of the keys, the union of the base headers and the signal's own,
\* with the signal's value for a key that both have
C18_HeaderMerge ==
    cfg.stage = "built" =>
        \A s \in Signals :
            LET own == cfg.raw[s].headers
                base == cfg.raw.headers
                spell(k) == IF isGRPCProtocol(cfg[s]) THEN lowerKey(k) ELSE canonicalKey(k)
                names == {spell(k) : k \in DOMAIN own \cup DOMAIN base}
            IN {e \in sentHeaders(cfg[s]) : e[1] \in names}
                 = {<<spell(k), IF k \in DOMAIN own THEN own[k] ELSE base[k]>> :
                       k \in DOMAIN own \cup DOMAIN base}

\* a client was built whose traces headers override one base header and
\* inherit another
C18_Witness ==
    /\ cfg.stage = "built"
    /\ cfg.raw.headers = ("Hoge" :> "fuga") @@ ("Api-Key" :> "base")
    /\ cfg.raw.traces.headers = ("Api-Key" :> "dummy")
    /\ cfg.traces.headers = ("Api-Key" :> "dummy") @@ ("Hoge" :> "fuga")
    /\ cfg.traces.protocol = "http/protobuf"

\* C19: a signal's own endpoint is used unchanged; without one the signal
\* uses the base endpoint, with v1/<signal> appended to the path if its
\* effective protocol is an HTTP one and unchanged if it is binary-RPC
C19_SignalEndpoint ==
    cfg.stage = "built" =>
        \A s \in Signals :
            cfg[s].endpoint =
                IF ~cfg.raw[s].endpoint.nil THEN cfg.raw[s].endpoint
                ELSE IF cfg[s].protocol \in {"http/json", "http/protobuf"}
                  THEN [cfg.raw.endpoint EXCEPT !.path = @ \o <<"v1", s>>]
                  ELSE cfg.raw.endpoint

\* a client was built whose traces endpoint is derived for HTTP from a base
\* endpoint with a path, whose metrics endpoint is the base endpoint and
\* whose logs endpoint is its own
C19_Witness ==
    /\ cfg.stage = "built"
    /\ cfg.raw.endpoint = URL("https", "ab", <<"otlp">>)
    /\ cfg.traces.protocol = "http/protobuf"
    /\ cfg.traces.endpoint.path = <<"otlp", "v1", "traces">>
    /\ cfg.metrics.protocol = "grpc"
    /\ cfg.metrics.endpoint.path = <<"otlp">>
    /\ cfg.logs.endpoint = SignalURL

\* C20 (as claimed): constructing a client in which some signal has neither
\* its own endpoint nor a base endpoint returns an error, whatever the
\* signal's protocol
C20_MissingEndpointIsError ==
    ( /\ cfg.stage # "raw"
      /\ cfg.raw.endpoint.nil
      /\ \E s \in Signals : cfg.raw[s].endpoint.nil )
    => cfg.stage = "error"

----------------------------------------------------------------------------
(* Claims about the multiplexer *)

\* C1: on either transport the layers of a call run cross-signal middleware
\* first, in registration order, then the signal's middleware, in
\* registration order, then the handler; each layer sees in its context the
\* values of all layers outside it
C1_MiddlewareOrder ==
    \A r \in Requesters :
        LET q == req[r] IN
        \A i \in 1..Len(q.log) :
            /\ \A j \in 1..(i - 1) :
                  LET a == q.log[j].layer
                      b == q.log[i].layer
                  IN /\ a.kind = "cross" \/ b.kind # "cross"
                     /\ a.kind # "handler"
                     /\ a.kind = b.kind => a.id < b.id
            /\ q.log[i].saw = [j \in 1..(i - 1) |-> q.log[j].layer.id]
            /\ q.log[i].layer.kind = "handler" =>
                  /\ i = Len(q.chain)
                  /\ \A m \in 1..Len(entries[q.sig].middlewares) :
                        entries[q.sig].middlewares[m] < q.log[i].layer.id
                        => \E j \in 1..(i - 1) :
                              q.log[j].layer = Layer("signal", entries[q.sig].middlewares[m])

\* an HTTP call has run a cross-signal middleware, a middleware of its
\* signal and the handler
C1_Witness ==
    \E r \in Requesters :
        /\ req[r].pc = "done"
        /\ req[r].transport = "http"
        /\ req[r].code = "OK"
        /\ Len(req[r].log) = 3
        /\ req[r].log[1].layer.kind = "cross"
        /\ req[r].log[2].layer.kind = "signal"
        /\ req[r].log[3].layer.kind = "handler"

noHandler(s) == s \notin DOMAIN entries \/ entries[s].h = 0

\* C11 (as claimed): a call for a signal that has no handler, whether or not
\* the signal's entry exists, ends Unimplemented on the binary-RPC side and
\* with 404 on the HTTP side (a request the bridge rejects for its method,
\* content type or body aside)
C11_NoHandlerUnimplementedOr404 ==
    [][\A r \in Requesters :
          ( /\ req'[r] # req[r]
            /\ req'[r].pc = "done"
            /\ noHandler(req'[r].sig) )
          => IF req'[r].transport = "grpc"
               THEN req'[r].code = "Unimplemented"
               ELSE req'[r].status \in {404, 405, 415, 400}]_vars

\* C12: an HTTP request to a path that has an entry is answered 405 if its
\* method is not POST and 415 if it is a POST of another content type than
\* the two accepted, and in both cases no layer of the chain has run
C12_MethodAndContentType ==
    [][\A r \in Requesters :
          ( /\ req'[r] # req[r]
            /\ req[r].pc \in {"idle", "done"}
            /\ req'[r].transport = "http"
            /\ req'[r].sig \in DOMAIN entries )
          => /\ req'[r].method # "POST" =>
                  /\ req'[r].pc = "done"
                  /\ req'[r].status = 405
                  /\ req'[r].log = <<>>
             /\ ( /\ req'[r].method = "POST"
                  /\ req'[r].contentType \notin {"application/x-protobuf", "application/json"} )
                => /\ req'[r].pc = "done"
                   /\ req'[r].status = 415
                   /\ req'[r].log = <<>>]_vars

\* a POST of text/plain to a signal with middleware and handler got 415
C12_Witness ==
    \E r \in Requesters :
        /\ req[r].pc = "done"
        /\ req[r].method = "POST"
        /\ req[r].status = 415
        /\ req[r].sig \in DOMAIN entries
        /\ entries[req[r].sig].h # 0
        /\ entries[req[r].sig].middlewares # <<>>

\* C13 (as claimed): a call that ended because a layer returned an error
\* shows the error's own status code, and on HTTP its mapped status in the
\* request's codec, if the error carries a status, and Internal (HTTP 500)
\* if it carries none, on both transports
C13_ErrorStatus ==
    \A r \in Requesters :
        LET q == req[r] IN
        (q.pc = "done" /\ q.log # <<>> /\ q.ret # "OK" /\ q.transport \in {"grpc", "http"})
        => /\ q.code = (IF q.ret = "error" THEN "Internal" ELSE q.ret)
           /\ q.transport = "http" =>
                 /\ q.status = grpcCodeToHTTPStatus(q.code)
                 /\ q.respContentType = q.contentType

\* C14 (as claimed): a POST in an accepted codec whose body does not decode
\* is answered 400 with an InvalidArgument status that carries an error-info
\* detail, and no layer of the chain has run
C14_DecodeFailure ==
    \A r \in Requesters :
        LET q == req[r] IN
        ( /\ q.pc = "done" /\ q.transport = "http" /\ q.method = "POST"
          /\ q.sig \in DOMAIN entries
          /\ q.contentType \in {"application/x-protobuf", "application/json"}
          /\ q.body = "malformed" )
        => /\ q.status = 400
           /\ q.code = "InvalidArgument"
           /\ q.detail
           /\ q.log = <<>>

\* C15 (as claimed): a POST in an accepted codec with a body of no bytes is
\* not rejected by the bridge: it reaches Export
C15_EmptyBody ==
    \A r \in Requesters :
        LET q == req[r] IN
        ( /\ q.pc # "idle" /\ q.transport = "http" /\ q.method = "POST"
          /\ q.sig \in DOMAIN entries
          /\ q.contentType \in {"application/x-protobuf", "application/json"}
          /\ q.body = "empty" )
        => ~(q.pc = "done" /\ q.code = "InvalidArgument" /\ q.log = <<>>)

handlerLayers(q) == {i \in 1..Len(q.log) : q.log[i].layer.kind = "handler"}

C17_HeadersFromContext ==
    \A r \in Requesters :
        LET q == req[r] IN
        \A i \in 1..Len(q.log) :
            LET got == q.log[i].hdr IN
            /\ got.ok = (q.transport \in {"http", "grpc"})
            /\ got.ok = q.md.present
            /\ got.ok => got.headers = {<<canonicalKey(e[1]), e[2]>> : e \in q.inbound}
            /\ ~got.ok => got.headers = {}

\* the handler of an HTTP call saw both values of a repeated header
C17_Witness ==
    \E r \in Requesters :
        /\ req[r].transport = "http"
        /\ \E i \in handlerLayers(req[r]) :
              /\ req[r].log[i].hdr.ok
              /\ {<<"Hoge", "fuga">>, <<"Hoge", "tora">>, <<"Api-Key", "k1">>}
                    \subseteq req[r].log[i].hdr.headers

\* the table of the claim
mappingTable ==
    [c \in Codes |->
        CASE c = "OK" -> 200
          [] c = "Canceled" -> 408
          [] c = "Unknown" -> 500
          [] c = "InvalidArgument" -> 400
          [] c = "DeadlineExceeded" -> 504
          [] c = "NotFound" -> 404
          [] c = "AlreadyExists" -> 409
          [] c = "PermissionDenied" -> 403
          [] c = "ResourceExhausted" -> 429
          [] c = "FailedPrecondition" -> 412
          [] c = "Aborted" -> 409
          [] c = "OutOfRange" -> 400
          [] c = "Unimplemented" -> 501
          [] c = "Internal" -> 500
          [] c = "Unavailable" -> 503
          [] c = "DataLoss" -> 500
          [] c = "Unauthenticated" -> 401]

\* C29: an HTTP call that ends with an RPC status code is answered with the
\* HTTP status the table gives for the code, and with 500 for a code the
\* table does not hold
C29_StatusMapping ==
    \A r \in Requesters :
        LET q == req[r] IN
        (q.pc = "done" /\ q.transport = "http" /\ q.code # "none") =>
            q.status = IF q.code \in Codes THEN mappingTable[q.code] ELSE 500

\* a handler's ResourceExhausted was answered 429 and a code outside the
\* table 500
C29_Witness ==
    \E r \in Requesters :
        /\ req[r].pc = "done" /\ req[r].transport = "http"
        /\ req[r].log # <<>>
        /\ \/ req[r].ret = "ResourceExhausted" /\ req[r].status = 429
           \/ req[r].ret = UnnamedCode /\ req[r].status = 500

----------------------------------------------------------------------------
(* JSON codec: protobuf-JSON with the identifiers of traces rewritten from  *)
(* base64 to hexadecimal and back. A text is a sequence of one-character    *)
(* strings, a byte string a sequence of numbers in 0..255, a JSON document  *)
(* the tree json.Unmarshal makes of it.                                     *)

UpperLetters == <<"A","B","C","D","E","F","G","H","I","J","K","L","M",
                  "N","O","P","Q","R","S","T","U","V","W","X","Y","Z">>
LowerLetters == <<"a","b","c","d","e","f","g","h","i","j","k","l","m",
                  "n","o","p","q","r","s","t","u","v","w","x","y","z">>
Digits == <<"0","1","2","3","4","5","6","7","8","9">>

\* position of c in the alphabet counted from 0, or -1
indexIn(c, alphabet) ==
    IF \E i \in 1..Len(alphabet) : alphabet[i] = c
      THEN (CHOOSE i \in 1..Len(alphabet) : alphabet[i] = c) - 1
      ELSE -1

\* strings.ToLower, one character
toLower(c) ==
    IF indexIn(c, UpperLetters) >= 0 THEN LowerLetters[indexIn(c, UpperLetters) + 1] ELSE c

\* strings.ToUpper, one character
toUpper(c) ==
    IF indexIn(c, LowerLetters) >= 0 THEN UpperLetters[indexIn(c, LowerLetters) + 1] ELSE c

\* strings.Contains
Contains(s, sub) ==
    \E i \in 1..(Len(s) - Len(sub) + 1) : SubSeq(s, i, i + Len(sub) - 1) = sub

\* encoding/hex: EncodeToString writes lower-case digits, DecodeString reads
\* both cases
hextable == Digits \o SubSeq(LowerLetters, 1, 6)

RECURSIVE hexEncodeToString(_)
hexEncodeToString(bs) ==
    IF bs = <<>> THEN <<>>
    ELSE <<hextable[(bs[1] \div 16) + 1], hextable[(bs[1] % 16) + 1]>>
            \o hexEncodeToString(Tail(bs))

fromHexChar(c) == indexIn(toLower(c), hextable)

\* hex.DecodeString: an error for a character that is no hex digit and for
\* an odd length
hexDecodeString(s) ==
    IF Len(s) % 2 = 1 \/ \E i \in 1..Len(s) : fromHexChar(s[i]) < 0
      THEN [err |-> TRUE, bs |-> <<>>]
      ELSE [err |-> FALSE,
            bs |-> [i \in 1..(Len(s) \div 2) |->
                       16 * fromHexChar(s[2 * i - 1]) + fromHexChar(s[2 * i])]]

\* encoding/base64: the standard and the URL alphabet
encodeStd == UpperLetters \o LowerLetters \o Digits \o <<"+", "/">>
encodeURL == UpperLetters \o LowerLetters \o Digits \o <<"-", "_">>

\* base64.StdEncoding.EncodeToString
RECURSIVE base64EncodeToString(_)
base64EncodeToString(bs) ==
    LET b(i) == IF i <= Len(bs) THEN bs[i] ELSE 0
        n == 65536 * b(1) + 256 * b(2) + b(3)
        c(k) == encodeStd[((n \div (64 ^ (4 - k))) % 64) + 1]
    IN IF bs = <<>> THEN <<>>
       ELSE IF Len(bs) = 1 THEN <<c(1), c(2), "=", "=">>
       ELSE IF Len(bs) = 2 THEN <<c(1), c(2), c(3), "=">>
       ELSE <<c(1), c(2), c(3), c(4)>> \o base64EncodeToString(SubSeq(bs, 4, Len(bs)))

\* the bytes of unpadded base64 text over an alphabet: three for every four
\* characters, one for two left over, two for three left over (left-over
\* bits are dropped)
RECURSIVE base64Quanta(_, _)
base64Quanta(s, alphabet) ==
    LET v(i) == IF i <= Len(s) THEN indexIn(s[i], alphabet) ELSE 0
        n == 262144 * v(1) + 4096 * v(2) + 64 * v(3) + v(4)
        three == <<n \div 65536, (n \div 256) % 256, n % 256>>
    IN IF s = <<>> THEN <<>>
       ELSE IF Len(s) = 2 THEN SubSeq(three, 1, 1)
       ELSE IF Len(s) = 3 THEN SubSeq(three, 1, 2)
       ELSE three \o base64Quanta(SubSeq(s, 5, Len(s)), alphabet)

\* (*base64.Encoding).DecodeString: with padding the length is a multiple of
\* four and only the last quantum ends in one or two "="; without padding no
\* character is left over alone; every other character is of the alphabet
base64DecodeString(s, alphabet, padding) ==
    LET n == Len(s)
        pad == IF ~padding \/ n = 0 \/ s[n] # "=" THEN 0
               ELSE IF n >= 2 /\ s[n - 1] = "=" THEN 2 ELSE 1
        body == SubSeq(s, 1, n - pad)
        ok == /\ padding => n % 4 = 0
              /\ Len(body) % 4 # 1
              /\ \A i \in 1..Len(body) : indexIn(body[i], alphabet) >= 0
    IN IF ok THEN [err |-> FALSE, bs |-> base64Quanta(body, alphabet)]
       ELSE [err |-> TRUE, bs |-> <<>>]

\* the spelling of the JSON keys that occur
keyChars(k) ==
    CASE k = "traceId" -> <<"t","r","a","c","e","I","d">>
      [] k = "spanId" -> <<"s","p","a","n","I","d">>
      [] k = "parentSpanId" -> <<"p","a","r","e","n","t","S","p","a","n","I","d">>
      [] k = "trace_id" -> <<"t","r","a","c","e","_","i","d">>
      [] k = "parent_span_id" -> <<"p","a","r","e","n","t","_","s","p","a","n","_","i","d">>
      [] k = "name" -> <<"n","a","m","e">>
      [] k = "spans" -> <<"s","p","a","n","s">>
      [] k = "scopeSpans" -> <<"s","c","o","p","e","S","p","a","n","s">>
      [] k = "resourceSpans" -> <<"r","e","s","o","u","r","c","e","S","p","a","n","s">>

\* keyIsTraceIDOrSpanID: (hexBytes, base64Bytes, isTraceIDOrSpanID)
keyIsTraceIDOrSpanID(k) ==
    LET stripped == SelectSeq(keyChars(k), LAMBDA c : c # "_")
        key == [i \in 1..Len(stripped) |-> toLower(stripped[i])]
    IN IF Contains(key, <<"t","r","a","c","e","i","d">>)
         THEN [hexBytes |-> 16, base64Bytes |-> 24, isID |-> TRUE]
       ELSE IF Contains(key, <<"s","p","a","n","i","d">>)
         THEN [hexBytes |-> 8, base64Bytes |-> 12, isID |-> TRUE]
       ELSE [hexBytes |-> 0, base64Bytes |-> 0, isID |-> FALSE]

\* the values of a JSON document
JString(s) == [t |-> "string", s |-> s]
JArray(l) == [t |-> "array", l |-> l]
JObject(m) == [t |-> "object", m |-> m]

\* one key of convertTraceIDAndSpanIDBase64ToHexForMap whose value is a
\* string under an identifier key: the new value
base64ToHexValue(id, s) ==
    LET d == base64DecodeString(s, encodeStd, TRUE)
        hexed == hexEncodeToString(d.bs)
        converted == [i \in 1..Len(hexed) |-> toUpper(hexed[i])]
    IN IF d.err THEN s
       ELSE IF Len(d.bs) # id.base64Bytes THEN s
       ELSE IF Len(converted) # id.hexBytes THEN s
       ELSE converted

RECURSIVE convertTraceIDAndSpanIDBase64ToHexForAny(_)
convertTraceIDAndSpanIDBase64ToHexForAny(data) ==
    IF data.t = "object"
      THEN JObject([k \in DOMAIN data.m |->
               IF keyIsTraceIDOrSpanID(k).isID /\ data.m[k].t = "string"
                 THEN JString(base64ToHexValue(keyIsTraceIDOrSpanID(k), data.m[k].s))
                 ELSE convertTraceIDAndSpanIDBase64ToHexForAny(data.m[k])])
    ELSE IF data.t = "array"
      THEN JArray([i \in 1..Len(data.l) |->
               convertTraceIDAndSpanIDBase64ToHexForAny(data.l[i])])
    ELSE data

\* one key of convertTraceIDAndSpanIDHexToBase64ForMap whose value is a
\* string under an identifier key: the new value
hexToBase64Value(id, s) ==
    LET d == hexDecodeString(s)
        converted == base64EncodeToString(d.bs)
    IN IF d.err THEN s
       ELSE IF Len(d.bs) # id.hexBytes THEN s
       ELSE IF Len(converted) # id.base64Bytes THEN s
       ELSE converted

RECURSIVE convertTraceIDAndSpanIDHexToBase64ForAny(_)
convertTraceIDAndSpanIDHexToBase64ForAny(data) ==
    IF data.t = "object"
      THEN JObject([k \in DOMAIN data.m |->
               IF keyIsTraceIDOrSpanID(k).isID /\ data.m[k].t = "string"
                 THEN JString(hexToBase64Value(keyIsTraceIDOrSpanID(k), data.m[k].s))
                 ELSE convertTraceIDAndSpanIDHexToBase64ForAny(data.m[k])])
    ELSE IF data.t = "array"
      THEN JArray([i \in 1..Len(data.l) |->
               convertTraceIDAndSpanIDHexToBase64ForAny(data.l[i])])
    ELSE data

\* a trace request of one resource and one scope: its spans, each with the
\* bytes of its identifiers and its name
Span(traceId, spanId, parentSpanId, name) ==
    [trace_id |-> traceId, span_id |-> spanId,
     parent_span_id |-> parentSpanId, name |-> name]

\* the fields protojson writes for a span: EmitUnpopulated is false, so an
\* empty field is left out; bytes are written in padded standard base64
spanFields(sp) ==
    (IF sp.trace_id = <<>> THEN {} ELSE {"traceId"})
      \cup (IF sp.span_id = <<>> THEN {} ELSE {"spanId"})
      \cup (IF sp.parent_span_id = <<>> THEN {} ELSE {"parentSpanId"})
      \cup (IF sp.name = <<>> THEN {} ELSE {"name"})

\* protojson.MarshalOptions.Marshal of the request
protojsonMarshal(msg) ==
    LET spanObject(sp) ==
            JObject([k \in spanFields(sp) |->
                CASE k = "traceId" -> JString(base64EncodeToString(sp.trace_id))
                  [] k = "spanId" -> JString(base64EncodeToString(sp.span_id))
                  [] k = "parentSpanId" -> JString(base64EncodeToString(sp.parent_span_id))
                  [] k = "name" -> JString(sp.name)])
        spans == JArray([i \in 1..Len(msg) |-> spanObject(msg[i])])
        scope == JObject("spans" :> spans)
        resource == JObject("scopeSpans" :> JArray(<<scope>>))
    IN JObject("resourceSpans" :> JArray(<<resource>>))

\* protojson reading a bytes field: the URL alphabet if the text holds "-"
\* or "_", no padding if its length is no multiple of four
unmarshalBytes(s) ==
    LET url == \E i \in 1..Len(s) : s[i] \in {"-", "_"}
    IN base64DecodeString(s, IF url THEN encodeURL ELSE encodeStd, Len(s) % 4 = 0)

\* protojson.Unmarshal of a span object: a field is read under its JSON name
\* or its proto name
unmarshalSpan(o) ==
    LET has(k) == k \in DOMAIN o.m
        bytesOf(json, proto) ==
            IF has(json) THEN unmarshalBytes(o.m[json].s)
            ELSE IF has(proto) THEN unmarshalBytes(o.m[proto].s)
            ELSE [err |-> FALSE, bs |-> <<>>]
        t == bytesOf("traceId", "trace_id")
        s == bytesOf("spanId", "span_id")
        p == bytesOf("parentSpanId", "parent_span_id")
    IN [err |-> t.err \/ s.err \/ p.err,
        span |-> Span(t.bs, s.bs, p.bs, IF has("name") THEN o.m["name"].s ELSE <<>>)]

\* protojson.Unmarshal of the request
protojsonUnmarshal(doc) ==
    LET spans == doc.m["resourceSpans"].l[1].m["scopeSpans"].l[1].m["spans"].l
        each == [i \in 1..Len(spans) |-> unmarshalSpan(spans[i])]
    IN IF \E i \in 1..Len(spans) : each[i].err
         THEN [err |-> TRUE, msg |-> <<>>]
         ELSE [err |-> FALSE, msg |-> [i \in 1..Len(spans) |-> each[i].span]]

\* MarshalJSON / JSONEncoder.Encode
MarshalJSON(msg) == convertTraceIDAndSpanIDBase64ToHexForAny(protojsonMarshal(msg))

\* JSONDecoder.Decode and UnmarshalJSON, of a document that parses as JSON
JSONDecode(doc) == protojsonUnmarshal(convertTraceIDAndSpanIDHexToBase64ForAny(doc))

\* identifiers: the ones of the repository's trace fixture, all-zero ones of
\* the regular lengths, and all-zero ones half as long again
FixtureTraceId == <<91,142,255,247,152,3,129,3,210,105,182,51,129,63,198,12>>
FixtureSpanId == <<238,225,155,126,195,193,177,116>>
Zeros(n) == [i \in 1..n |-> 0]

upperHex(bs) ==
    LET h == hexEncodeToString(bs) IN [i \in 1..Len(h) |-> toUpper(h[i])]

TraceIds == {FixtureTraceId, Zeros(16), Zeros(24), <<>>}
SpanIds == {FixtureSpanId, Zeros(8), Zeros(12)}
ParentSpanIds == {<<>>, FixtureSpanId, Zeros(12)}
SpanNames == {<<"o","p">>, <<"A","B","C","D">>}

Messages ==
    {<<Span(t, s, p, n)>> : t \in TraceIds, s \in SpanIds, p \in ParentSpanIds, n \in SpanNames}

\* identifier texts of received documents: regular hexadecimal in either
\* case, hexadecimal of a wrong length, text that is no hexadecimal, base64
TraceIdTexts ==
    {upperHex(FixtureTraceId), hexEncodeToString(FixtureTraceId),
     SubSeq(upperHex(FixtureTraceId), 1, 30),
     upperHex(FixtureTraceId) \o <<"0">>,
     <<"X","Y","Z","!">>, <<"Z","Z","Z","Z">>,
     base64EncodeToString(FixtureTraceId)}
SpanIdTexts ==
    {upperHex(FixtureSpanId), SubSeq(upperHex(FixtureSpanId), 1, 12),
     <<"5","B","8","E","F">>, base64EncodeToString(FixtureSpanId)}

Documents ==
    {JObject("resourceSpans" :> JArray(<<JObject("scopeSpans" :> JArray(<<
        JObject("spans" :> JArray(<<
            JObject((tk :> JString(t)) @@ ("spanId" :> JString(s))
                        @@ ("name" :> JString(<<"o","p">>)))>>))>>))>>)) :
        tk \in {"traceId", "trace_id"}, t \in TraceIdTexts, s \in SpanIdTexts}

InitJSON ==
    /\ InitClientWith(BlockedConfig)
    /\ InitMuxIdle
    /\ \/ \E m \in Messages : calc = [op |-> "message", msg |-> m]
       \/ \E d \in Documents : calc = [op |-> "document", doc |-> d]

\* JSONEncoder.Encode of a message
Encode ==
    /\ calc.op = "message"
    /\ calc' = [op |-> "encoded", msg |-> calc.msg, doc |-> MarshalJSON(calc.msg)]
    /\ UNCHANGED clientVars
    /\ UNCHANGED muxVars

\* JSONDecoder.Decode of what Encode wrote
DecodeEncoded ==
    /\ calc.op = "encoded"
    /\ calc' = [op |-> "decoded", msg |-> calc.msg, doc |-> calc.doc,
                out |-> JSONDecode(calc.doc)]
    /\ UNCHANGED clientVars
    /\ UNCHANGED muxVars

\* JSONDecoder.Decode of a received document
DecodeDocument ==
    /\ calc.op = "document"
    /\ calc' = [op |-> "parsed", doc |-> calc.doc,
                shimmed |-> convertTraceIDAndSpanIDHexToBase64ForAny(calc.doc),
                out |-> JSONDecode(calc.doc)]
    /\ UNCHANGED clientVars
    /\ UNCHANGED muxVars

NextJSON ==
    \/ Encode
    \/ DecodeEncoded
    \/ DecodeDocument

SpecJSON == InitJSON /\ [][NextJSON]_vars

\* the span object of a document of one span
spanOf(doc) == doc.m["resourceSpans"].l[1].m["scopeSpans"].l[1].m["spans"].l[1].m

\* C21 (as claimed): decoding the JSON an encode produced yields the message
\* that was encoded
C21_RoundTrip ==
    calc.op = "decoded" => ~calc.out.err /\ calc.out.msg = calc.msg

\* C22 (as claimed): in the encoder's output a 16-byte trace identifier is
\* written as 32 and an 8-byte span or parent span identifier as 16
\* upper-case hexadecimal characters
C22_HexIdentifiers ==
    calc.op = "encoded" =>
        LET sp == calc.msg[1]
            o == spanOf(calc.doc)
        IN /\ Len(sp.trace_id) = 16 =>
                  o["traceId"].s = upperHex(sp.trace_id) /\ Len(o["traceId"].s) = 32
           /\ Len(sp.span_id) = 8 =>
                  o["spanId"].s = upperHex(sp.span_id) /\ Len(o["spanId"].s) = 16
           /\ Len(sp.parent_span_id) = 8 =>
                  o["parentSpanId"].s = upperHex(sp.parent_span_id)
                      /\ Len(o["parentSpanId"].s) = 16

\* an identifier text the decoder's shim cannot convert: no hexadecimal, or
\* hexadecimal of another length than the key's
unconvertible(k, s) ==
    hexDecodeString(s).err \/ Len(hexDecodeString(s).bs) # keyIsTraceIDOrSpanID(k).hexBytes

\* C23 (as claimed): decoding a document in which an identifier has the
\* wrong length or is no hexadecimal leaves that identifier as it is and
\* returns no error
C23_BadIdentifierTolerated ==
    calc.op = "parsed" =>
        \A k \in {"traceId", "trace_id", "spanId"} \cap DOMAIN spanOf(calc.doc) :
            unconvertible(k, spanOf(calc.doc)[k].s) =>
                /\ spanOf(calc.shimmed)[k] = spanOf(calc.doc)[k]
                /\ ~calc.out.err

----------------------------------------------------------------------------
(* Signal lists: Split, Filter and Partition of resource / scope / item /    *)
(* leaf trees                                                               *)

\* dst = append(dst, ...) over a loop of loops: the parts in order
RECURSIVE appendAll(_)
appendAll(parts) ==
    IF parts = <<>> THEN <<>> ELSE Head(parts) \o appendAll(Tail(parts))

RECURSIVE sumAll(_)
sumAll(ns) == IF ns = <<>> THEN 0 ELSE Head(ns) + sumAll(Tail(ns))

\* TotalSpans
TotalSpans(src) ==
    sumAll([i \in 1..Len(src) |->
        sumAll([j \in 1..Len(src[i].scopeSpans) |-> Len(src[i].scopeSpans[j].spans)])])

splitScopeSpans_WholeList(src) ==
    appendAll([i \in 1..Len(src) |->
        [j \in 1..Len(src[i].spans) |->
            [scope |-> src[i].scope,
             spans |-> src[i].spans,
             schemaUrl |-> src[i].schemaUrl]]])

\* splitScopeSpans
splitScopeSpans(src) ==
    appendAll([i \in 1..Len(src) |->
        [j \in 1..Len(src[i].spans) |->
            [scope |-> src[i].scope,
             spans |-> <<src[i].spans[j]>>,
             schemaUrl |-> src[i].schemaUrl]]])

SplitResourceSpans_OnePerResource(src) ==
    appendAll([i \in 1..Len(src) |->
        IF splitScopeSpans(src[i].scopeSpans) = <<>> THEN <<>>
        ELSE <<[resource |-> src[i].resource,
                scopeSpans |-> splitScopeSpans(src[i].scopeSpans),
                schemaUrl |-> src[i].schemaUrl]>>])

\* SplitResourceSpans
SplitResourceSpans(src) ==
    appendAll([i \in 1..Len(src) |->
        LET split == splitScopeSpans(src[i].scopeSpans) IN
        [j \in 1..Len(split) |->
            [resource |-> src[i].resource,
             scopeSpans |-> <<split[j]>>,
             schemaUrl |-> src[i].schemaUrl]]])

\* TotalLogRecords
TotalLogRecords(src) ==
    sumAll([i \in 1..Len(src) |->
        sumAll([j \in 1..Len(src[i].scopeLogs) |-> Len(src[i].scopeLogs[j].logRecords)])])

\* splitScopeLogs
splitScopeLogs(src) ==
    appendAll([i \in 1..Len(src) |->
        [j \in 1..Len(src[i].logRecords) |->
            [scope |-> src[i].scope,
             logRecords |-> <<src[i].logRecords[j]>>,
             schemaUrl |-> src[i].schemaUrl]]])

\* SplitResourceLogs
SplitResourceLogs(src) ==
    appendAll([i \in 1..Len(src) |->
        LET split == splitScopeLogs(src[i].scopeLogs) IN
        [j \in 1..Len(split) |->
            [resource |-> src[i].resource,
             scopeLogs |-> <<split[j]>>,
             schemaUrl |-> src[i].schemaUrl]]])

\* the oneof Metric.data: its case ("Gauge", "Sum", "Summary", "Histogram",
\* "ExponentialHistogram", or "" for none) with the parameters and the data
\* points of the case
MetricTypes == {"Gauge", "Sum", "Summary", "Histogram", "ExponentialHistogram"}

Data(type, temporality, monotonic, dataPoints) ==
    [type |-> type, aggregationTemporality |-> temporality,
     isMonotonic |-> monotonic, dataPoints |-> dataPoints]

\* TotalDataPoints
TotalDataPoints(src) ==
    sumAll([i \in 1..Len(src) |->
        sumAll([j \in 1..Len(src[i].scopeMetrics) |->
            sumAll([k \in 1..Len(src[i].scopeMetrics[j].metrics) |->
                LET data == src[i].scopeMetrics[j].metrics[k].data IN
                IF data.type \in MetricTypes THEN Len(data.dataPoints) ELSE 0])])])

\* the Data a case of splitMetrics builds around one data point: Sum copies
\* the aggregation temporality and is_monotonic, Histogram and
\* ExponentialHistogram the aggregation temporality, Gauge and Summary have
\* neither
splitData_NoParameters(data, dataPoint) ==
    Data(data.type, 0, FALSE, <<dataPoint>>)

splitData(data, dataPoint) ==
    CASE data.type = "Sum" ->
            Data("Sum", data.aggregationTemporality, data.isMonotonic, <<dataPoint>>)
      [] data.type \in {"Histogram", "ExponentialHistogram"} ->
            Data(data.type, data.aggregationTemporality, FALSE, <<dataPoint>>)
      [] OTHER -> Data(data.type, 0, FALSE, <<dataPoint>>)

\* splitMetrics that emits one metric for a whole metric instead of one for
\* each data point
splitMetrics_FirstPointOnly(src) ==
    appendAll([i \in 1..Len(src) |->
        IF src[i].data.type \in MetricTypes /\ Len(src[i].data.dataPoints) > 0
          THEN <<[src[i] EXCEPT !.data = splitData(@, @.dataPoints[1])]>>
          ELSE <<>>])

\* splitMetrics
splitMetrics(src) ==
    appendAll([i \in 1..Len(src) |->
        IF src[i].data.type \in MetricTypes
          THEN [j \in 1..Len(src[i].data.dataPoints) |->
                   [name |-> src[i].name,
                    description |-> src[i].description,
                    unit |-> src[i].unit,
                    metadata |-> src[i].metadata,
                    data |-> splitData(src[i].data, src[i].data.dataPoints[j])]]
          ELSE <<>>])

\* splitScopeMetrics
splitScopeMetrics(src) ==
    appendAll([i \in 1..Len(src) |->
        LET split == splitMetrics(src[i].metrics) IN
        [j \in 1..Len(split) |->
            [scope |-> src[i].scope,
             metrics |-> <<split[j]>>,
             schemaUrl |-> src[i].schemaUrl]]])

\* SplitResourceMetrics
SplitResourceMetrics(src) ==
    appendAll([i \in 1..Len(src) |->
        LET split == splitScopeMetrics(src[i].scopeMetrics) IN
        [j \in 1..Len(split) |->
            [resource |-> src[i].resource,
             scopeMetrics |-> <<split[j]>>,
             schemaUrl |-> src[i].schemaUrl]]])

\* Split of the signal's list
Split(signal, src) ==
    CASE signal = "traces" -> SplitResourceSpans(src)
      [] signal = "metrics" -> SplitResourceMetrics(src)
      [] signal = "logs" -> SplitResourceLogs(src)

\* Total of the signal's list
Total(signal, src) ==
    CASE signal = "traces" -> TotalSpans(src)
      [] signal = "metrics" -> TotalDataPoints(src)
      [] signal = "logs" -> TotalLogRecords(src)

\* the fields of the signal's trees: the scope containers of a resource
\* tree and the items of a scope container
scopesField(signal) ==
    CASE signal = "traces" -> "scopeSpans"
      [] signal = "metrics" -> "scopeMetrics"
      [] signal = "logs" -> "scopeLogs"

itemsField(signal) ==
    CASE signal = "traces" -> "spans"
      [] signal = "metrics" -> "metrics"
      [] signal = "logs" -> "logRecords"

\* a filter function, by its constructor and arguments, applied to a
\* resource, a scope and an item: SpanInTimeRangeFilter,
\* LogRecordInTimeRangeFilter, MetricDataPointInTimeRangeFilter, and
\* caller-written ones that compare the resource or the scope
applyFilter(f, resource, scope, item) ==
    CASE f.kind = "SpanInTimeRange" ->
            item.startTimeUnixNano > f.start /\ item.endTimeUnixNano < f.end
      [] f.kind = "LogRecordInTimeRange" ->
            item.timeUnixNano > f.start /\ item.timeUnixNano < f.end
      [] f.kind = "MetricDataPointInTimeRange" ->
            /\ item.data.type \in MetricTypes
            /\ \E n \in 1..Len(item.data.dataPoints) :
                  /\ item.data.dataPoints[n].timeUnixNano > f.start
                  /\ item.data.dataPoints[n].timeUnixNano < f.end
      [] f.kind = "Resource" -> resource = f.resource
      [] f.kind = "Scope" -> scope = f.scope

andFilter_Any(filters, resource, scope, item) ==
    \E i \in 1..Len(filters) : applyFilter(filters[i], resource, scope, item)

\* andFilter
andFilter(filters, resource, scope, item) ==
    \A i \in 1..Len(filters) : applyFilter(filters[i], resource, scope, item)

\* FilterResourceSpans, FilterResourceMetrics, FilterResourceLogs
Filter(signal, src, filters) ==
    LET splited == Split(signal, src) IN
    appendAll([e \in 1..Len(splited) |->
        LET scopes == splited[e][scopesField(signal)] IN
        appendAll([j \in 1..Len(scopes) |->
            LET items == scopes[j][itemsField(signal)] IN
            appendAll([k \in 1..Len(items) |->
                IF andFilter(filters, splited[e].resource, scopes[j].scope, items[k])
                  THEN <<splited[e]>> ELSE <<>>])])])

\* time.Unix(0, t).In(tz).Format(Hourly): times count half hours, the zone
\* is UTC
formatHourly(t) == ToString(t \div 2)

\* a partition key function, by its constructor, applied to a tree:
\* PartitionBySpanStartTime, PartitionBySpanEndTime, PartitionByMetricType,
\* PartitionByMetricStartTime, PartitionByMetricTime, PartitionByLogTime,
\* PartitionByLogSeverityNumber, PartitionByLogSeverityText,
\* PartitionByLogObservedTime, and a caller-written one by resource
getPartitionKey(key, signal, tree) ==
    LET scopes == tree[scopesField(signal)]
        items == scopes[1][itemsField(signal)]
        item == items[1]
        point == item.data.dataPoints[1]
    IN IF key = "Resource" THEN tree.resource
       ELSE IF Len(scopes) = 0 THEN ""
       ELSE IF Len(items) = 0 THEN ""
       ELSE CASE key = "SpanStartTime" -> formatHourly(item.startTimeUnixNano)
              [] key = "SpanEndTime" -> formatHourly(item.endTimeUnixNano)
              [] key = "LogTime" -> formatHourly(item.timeUnixNano)
              [] key = "LogObservedTime" -> formatHourly(item.observedTimeUnixNano)
              [] key = "LogSeverityNumber" -> item.severityText
              [] key = "LogSeverityText" -> item.severityText
              [] key = "MetricType" ->
                    IF item.data.type \in MetricTypes THEN item.data.type ELSE ""
              [] key = "MetricStartTime" ->
                    IF item.data.type \in MetricTypes /\ Len(item.data.dataPoints) > 0
                      THEN formatHourly(point.startTimeUnixNano) ELSE ""
              [] key = "MetricTime" ->
                    IF item.data.type \in MetricTypes /\ Len(item.data.dataPoints) > 0
                      THEN formatHourly(point.timeUnixNano) ELSE ""

\* AppendResourceSpans, AppendResourceMetrics, AppendResourceLogs of a
\* one-item tree: the item joins the first tree of dst with an equal
\* resource and, in it, the first scope container with an equal scope; a
\* tree or a scope container that is missing is appended
AppendOne(signal, dst, elem) ==
    LET sf == scopesField(signal)
        itf == itemsField(signal)
        sc == elem[sf][1]
        trees == {i \in 1..Len(dst) : dst[i].resource = elem.resource}
        ti == CHOOSE i \in trees : \A i2 \in trees : i <= i2
        scopes == {j \in 1..Len(dst[ti][sf]) : dst[ti][sf][j].scope = sc.scope}
        sj == CHOOSE j \in scopes : \A j2 \in scopes : j <= j2
    IN IF trees = {} THEN Append(dst, elem)
       ELSE IF scopes = {}
         THEN [dst EXCEPT ![ti] = [@ EXCEPT ![sf] = Append(@, sc)]]
       ELSE [dst EXCEPT ![ti] = [@ EXCEPT ![sf] =
                [@ EXCEPT ![sj] = [@ EXCEPT ![itf] = @ \o sc[itf]]]]]

\* m[key] of a Go map: the zero value for a missing key
mapGet(m, k) == IF k \in DOMAIN m THEN m[k] ELSE <<>>

\* the loop of Partition*: m[key] = Append*(m[key], elem) for every elem
RECURSIVE partitionInto(_, _, _, _)
partitionInto(m, elems, signal, key) ==
    IF elems = <<>> THEN m
    ELSE LET k == getPartitionKey(key, signal, Head(elems))
             bucket == AppendOne(signal, mapGet(m, k), Head(elems))
         IN partitionInto([x \in DOMAIN m \cup {k} |-> IF x = k THEN bucket ELSE m[x]],
                          Tail(elems), signal, key)

Partition_FirstKey(signal, src, key) ==
    LET elems == Split(signal, src)
        k == getPartitionKey(key, signal, elems[1])
    IN IF elems = <<>> THEN [x \in {} |-> <<>>]
       ELSE (k :> Split(signal, src))

\* PartitionResourceSpans, PartitionResourceMetrics, PartitionResourceLogs
Partition(signal, src, key) ==
    partitionInto([x \in {} |-> <<>>], Split(signal, src), signal, key)

\* the leaves drawn: three spans, three data points, three log records;
\* times count half hours
spanSeq ==
    <<[name |-> "a", startTimeUnixNano |-> 1, endTimeUnixNano |-> 2],
      [name |-> "b", startTimeUnixNano |-> 2, endTimeUnixNano |-> 5],
      [name |-> "c", startTimeUnixNano |-> 3, endTimeUnixNano |-> 3]>>
pointSeq ==
    <<[startTimeUnixNano |-> 1, timeUnixNano |-> 1, value |-> 10],
      [startTimeUnixNano |-> 2, timeUnixNano |-> 3, value |-> 20],
      [startTimeUnixNano |-> 3, timeUnixNano |-> 4, value |-> 30]>>
logSeq ==
    <<[timeUnixNano |-> 1, observedTimeUnixNano |-> 2, severityText |-> "INFO"],
      [timeUnixNano |-> 2, observedTimeUnixNano |-> 2, severityText |-> "ERROR"],
      [timeUnixNano |-> 3, observedTimeUnixNano |-> 4, severityText |-> "INFO"]>>

\* the first n of the leaves, for every n up to MaxLeaves
leafLists(seq) == {SubSeq(seq, 1, n) : n \in 0..MaxLeaves}

\* lists of at most two elements
upToTwo(S) == {<<>>} \cup {<<x>> : x \in S} \cup {<<x, y>> : x \in S, y \in S}

\* lists of at most two elements whose second element is of T
upToTwoEndingIn(S, T) == {<<>>} \cup {<<x>> : x \in S} \cup {<<x, y>> : x \in S, y \in T}

Scopes == {<<"s1", "su1">>, <<"s2", "su2">>}
Resources == {<<"r1", "ru1">>, <<"r2", "ru2">>}

ScopeSpansSet ==
    {[scope |-> s[1], spans |-> l, schemaUrl |-> s[2]] : s \in Scopes, l \in leafLists(spanSeq)}
ResourceSpansSet ==
    {[resource |-> r[1], scopeSpans |-> l, schemaUrl |-> r[2]] :
        r \in Resources, l \in upToTwo(ScopeSpansSet)}

ScopeLogsSet ==
    {[scope |-> s[1], logRecords |-> l, schemaUrl |-> s[2]] : s \in Scopes, l \in leafLists(logSeq)}
ResourceLogsSet ==
    {[resource |-> "r1", scopeLogs |-> l, schemaUrl |-> "ru1"] : l \in upToTwo(ScopeLogsSet)}

\* a metric of every case with its parameters set, and one without data
Metric(type, dataPoints) ==
    [name |-> <<"name of", type>>, description |-> <<"description of", type>>,
     unit |-> <<"unit of", type>>, metadata |-> <<"metadata of", type>>,
     data |-> CASE type = "Sum" -> Data(type, 2, TRUE, dataPoints)
                [] type = "Histogram" -> Data(type, 1, FALSE, dataPoints)
                [] type = "ExponentialHistogram" -> Data(type, 2, FALSE, dataPoints)
                [] OTHER -> Data(type, 0, FALSE, dataPoints)]
MetricSet ==
    {Metric(t, l) : t \in MetricTypes, l \in leafLists(pointSeq)} \cup {Metric("", <<>>)}
ScopeMetricsSet ==
    {[scope |-> s[1], metrics |-> l, schemaUrl |-> s[2]] :
        s \in Scopes,
        l \in upToTwoEndingIn(MetricSet, {Metric("Gauge", SubSeq(pointSeq, 1, 1)),
                                          Metric("Sum", SubSeq(pointSeq, 1, MaxLeaves))})}
ResourceMetricsSet ==
    {[resource |-> r[1], scopeMetrics |-> l, schemaUrl |-> r[2]] :
        r \in Resources,
        l \in upToTwoEndingIn(ScopeMetricsSet,
                 {[scope |-> "s1", metrics |-> <<Metric("Histogram", SubSeq(pointSeq, 1, 1))>>,
                   schemaUrl |-> "su1"]})}
ResourceMetricsTails ==
    {[resource |-> "r1", schemaUrl |-> "ru1",
      scopeMetrics |-> <<[scope |-> "s1", schemaUrl |-> "su1",
                          metrics |-> <<Metric("Sum", SubSeq(pointSeq, 1, MaxLeaves))>>]>>],
     [resource |-> "r2", schemaUrl |-> "ru2",
      scopeMetrics |-> <<[scope |-> "s2", schemaUrl |-> "su2",
                          metrics |-> <<Metric("Summary", SubSeq(pointSeq, 1, 1))>>]>>]}

SignalLists ==
    [traces |-> upToTwo(ResourceSpansSet),
     metrics |-> upToTwoEndingIn(ResourceMetricsSet, ResourceMetricsTails),
     logs |-> upToTwo(ResourceLogsSet)]

KeyFunctions ==
    [traces |-> {"SpanStartTime", "SpanEndTime", "Resource"},
     metrics |-> {"MetricType", "MetricStartTime", "MetricTime", "Resource"},
     logs |-> {"LogTime", "LogObservedTime", "LogSeverityNumber", "LogSeverityText"}]

InRange(kind, from, to) == [kind |-> kind, start |-> from, end |-> to]
OfResource(r) == [kind |-> "Resource", resource |-> r]
OfScope(s) == [kind |-> "Scope", scope |-> s]

FilterLists ==
    [traces |-> {<<>>, <<InRange("SpanInTimeRange", 0, 4)>>,
                 <<InRange("SpanInTimeRange", 1, 6), OfResource("r1")>>,
                 <<OfScope("s2"), OfResource("r2")>>},
     metrics |-> {<<>>, <<InRange("MetricDataPointInTimeRange", 0, 2)>>,
                  <<InRange("MetricDataPointInTimeRange", 2, 9), OfScope("s1")>>},
     logs |-> {<<>>, <<InRange("LogRecordInTimeRange", 1, 9)>>,
               <<InRange("LogRecordInTimeRange", 0, 3), OfScope("s1")>>}]

InitSignals ==
    /\ InitClientWith(BlockedConfig)
    /\ InitMuxIdle
    /\ \E signal \in Signals : \E L \in SignalLists[signal] :
          calc = [op |-> "list", signal |-> signal, L |-> L]

\* Split*(L): the function reads src and stores into none of its elements
SplitCall ==
    /\ calc.op = "list"
    /\ calc' = [op |-> "split", signal |-> calc.signal, before |-> calc.L,
                L |-> calc.L, out |-> Split(calc.signal, calc.L)]
    /\ UNCHANGED clientVars
    /\ UNCHANGED muxVars

\* Split* of what Split* returned
SplitAgain ==
    /\ calc.op = "split"
    /\ calc' = [op |-> "resplit", signal |-> calc.signal, L |-> calc.L,
                out |-> calc.out, again |-> Split(calc.signal, calc.out)]
    /\ UNCHANGED clientVars
    /\ UNCHANGED muxVars

\* Partition*(L, key)
PartitionCall(key) ==
    /\ calc.op = "list"
    /\ key \in KeyFunctions[calc.signal]
    /\ calc' = [op |-> "partition", signal |-> calc.signal, L |-> calc.L,
                key |-> key, out |-> Partition(calc.signal, calc.L, key)]
    /\ UNCHANGED clientVars
    /\ UNCHANGED muxVars

\* Filter*(L, filters...)
FilterCall(filters) ==
    /\ calc.op = "list"
    /\ filters \in FilterLists[calc.signal]
    /\ calc' = [op |-> "filter", signal |-> calc.signal, L |-> calc.L,
                filters |-> filters, out |-> Filter(calc.signal, calc.L, filters)]
    /\ UNCHANGED clientVars
    /\ UNCHANGED muxVars

NextSignals ==
    \/ SplitCall
    \/ SplitAgain
    \/ \E s \in Signals : \E key \in KeyFunctions[s] : PartitionCall(key)
    \/ \E s \in Signals : \E filters \in FilterLists[s] : FilterCall(filters)

SpecSignals == InitSignals /\ [][NextSignals]_vars

\* ---- the leaves of a list, addressed by position ----

\* the leaves under one item: a span or a log record is its own leaf, a
\* metric's leaves are its data points
leavesOf(signal, item) ==
    IF signal = "metrics"
    THEN IF item.data.type \in MetricTypes THEN item.data.dataPoints ELSE <<>>
    ELSE <<item>>

\* <<i, j, k, n>>: leaf n of item k of scope container j of resource tree i
pathsOf(signal, L) ==
    UNION {UNION {UNION {{<<i, j, k, n>> :
                            n \in 1..Len(leavesOf(signal,
                                     L[i][scopesField(signal)][j][itemsField(signal)][k]))} :
                         k \in 1..Len(L[i][scopesField(signal)][j][itemsField(signal)])} :
                  j \in 1..Len(L[i][scopesField(signal)])} :
           i \in 1..Len(L)}

scopeAt(signal, L, p) == L[p[1]][scopesField(signal)][p[2]]
itemAt(signal, L, p) == scopeAt(signal, L, p)[itemsField(signal)][p[3]]
leafAt(signal, L, p) == leavesOf(signal, itemAt(signal, L, p))[p[4]]

\* p comes before q when the tree is walked in pre-order
before(p, q) ==
    \E d \in 1..4 : p[d] < q[d] /\ \A c \in 1..(d - 1) : p[c] = q[c]

\* the position of p among the paths of P, in pre-order
rankIn(P, p) == 1 + Cardinality({q \in P : before(q, p)})

\* the item at p with the leaf at p as its only leaf
oneLeafItem(signal, L, p) ==
    IF signal = "metrics"
    THEN [itemAt(signal, L, p) EXCEPT !.data.dataPoints = <<leafAt(signal, L, p)>>]
    ELSE itemAt(signal, L, p)

\* the leaf at p wrapped as a one-leaf tree under its own parents
oneLeafTree(signal, L, p) ==
    [L[p[1]] EXCEPT ![scopesField(signal)] =
        <<[scopeAt(signal, L, p) EXCEPT ![itemsField(signal)] =
              <<oneLeafItem(signal, L, p)>>]>>]

\* every filter of the list accepts the leaf at p
satisfiesAll(signal, L, filters, p) ==
    \A x \in 1..Len(filters) :
        applyFilter(filters[x], L[p[1]].resource, scopeAt(signal, L, p).scope,
                    oneLeafItem(signal, L, p))

RECURSIVE sumOver(_, _)
sumOver(m, keys) ==
    IF keys = {} THEN 0
    ELSE LET v == CHOOSE v \in keys : TRUE
         IN  Total(calc.signal, m[v]) + sumOver(m, keys \ {v})

\* C24: Split keeps the leaf count of the list, and the leaf counts of the
\* buckets of Partition add up to the leaf count of the list
C24_LeafCountConserved ==
    /\ calc.op = "split" => Total(calc.signal, calc.out) = Total(calc.signal, calc.L)
    /\ calc.op = "partition" =>
          sumOver(calc.out, DOMAIN calc.out) = Total(calc.signal, calc.L)

C24_Witness ==
    /\ calc.op = "partition"
    /\ Cardinality(DOMAIN calc.out) >= 2
    /\ Total(calc.signal, calc.L) >= 3
    /\ \E v \in DOMAIN calc.out : Total(calc.signal, calc.out[v]) >= 2

\* C25: every element of Split(L) has one scope container, one item and one
\* leaf, and the elements come in the pre-order of the leaves of L
C25_OneLeafPreOrder ==
    calc.op = "split" =>
        LET P == pathsOf(calc.signal, calc.L)
        IN  /\ Len(calc.out) = Cardinality(P)
            /\ \A r \in 1..Len(calc.out) :
                  /\ Len(calc.out[r][scopesField(calc.signal)]) = 1
                  /\ Len(scopeAt(calc.signal, calc.out, <<r, 1>>)[itemsField(calc.signal)]) = 1
                  /\ Len(leavesOf(calc.signal, itemAt(calc.signal, calc.out, <<r, 1, 1>>))) = 1
            /\ \A p \in P :
                  leafAt(calc.signal, calc.out, <<rankIn(P, p), 1, 1, 1>>)
                      = leafAt(calc.signal, calc.L, p)

C25_Witness ==
    /\ calc.op = "split"
    /\ Len(calc.L) = 2
    /\ Len(calc.out) >= 4
    /\ \E p \in pathsOf(calc.signal, calc.L) :
          p[1] = 2 /\ p[2] = 2 /\ (p[3] = 2 \/ p[4] = 2)

\* C26: every leaf of Filter(L, P) satisfies every predicate of P, and every
\* leaf of L that satisfies them all is in the result once
C26_FilterSoundComplete ==
    calc.op = "filter" =>
        LET P == pathsOf(calc.signal, calc.L)
            S == {p \in P : satisfiesAll(calc.signal, calc.L, calc.filters, p)}
        IN  /\ \A q \in pathsOf(calc.signal, calc.out) :
                  satisfiesAll(calc.signal, calc.out, calc.filters, q)
            /\ Len(calc.out) = Cardinality(S)
            /\ \A p \in S :
                  calc.out[rankIn(S, p)] = oneLeafTree(calc.signal, calc.L, p)

C26_Witness ==
    /\ calc.op = "filter"
    /\ Len(calc.filters) = 2
    /\ Len(calc.out) >= 2
    /\ Len(calc.out) < Total(calc.signal, calc.L)

\* C27: every leaf of the bucket of Partition(L, k) under key v, wrapped as
\* a one-leaf tree, is given the key v by k
C27_BucketKey ==
    calc.op = "partition" =>
        \A v \in DOMAIN calc.out :
            \A p \in pathsOf(calc.signal, calc.out[v]) :
                getPartitionKey(calc.key, calc.signal,
                                oneLeafTree(calc.signal, calc.out[v], p)) = v

C27_Witness ==
    /\ calc.op = "partition"
    /\ Cardinality(DOMAIN calc.out) >= 2
    /\ \A v \in DOMAIN calc.out : Total(calc.signal, calc.out[v]) >= 2

\* C28: every one-leaf tree of Split(L) carries the resource, the scope and
\* the schema URLs of the leaf's parents in L, a metric also its name,
\* description, unit, metadata and the parameters of its case, and L is the
\* same list after the call
C28_ParentsCarried ==
    calc.op = "split" =>
        LET P == pathsOf(calc.signal, calc.L)
        IN  /\ calc.L = calc.before
            /\ Len(calc.out) = Cardinality(P)
            /\ \A p \in P :
                  LET e == calc.out[rankIn(P, p)]
                      es == scopeAt(calc.signal, calc.out, <<rankIn(P, p), 1>>)
                      ei == itemAt(calc.signal, calc.out, <<rankIn(P, p), 1, 1>>)
                      s == scopeAt(calc.signal, calc.L, p)
                      i == itemAt(calc.signal, calc.L, p)
                  IN  /\ e.resource = calc.L[p[1]].resource
                      /\ e.schemaUrl = calc.L[p[1]].schemaUrl
                      /\ es.scope = s.scope
                      /\ es.schemaUrl = s.schemaUrl
                      /\ calc.signal = "metrics" =>
                            /\ ei.name = i.name
                            /\ ei.description = i.description
                            /\ ei.unit = i.unit
                            /\ ei.metadata = i.metadata
                            /\ ei.data.type = i.data.type
                            /\ i.data.type \in {"Sum", "Histogram", "ExponentialHistogram"} =>
                                  ei.data.aggregationTemporality = i.data.aggregationTemporality
                            /\ i.data.type = "Sum" =>
                                  ei.data.isMonotonic = i.data.isMonotonic

C28_Witness ==
    /\ calc.op = "split"
    /\ calc.signal = "metrics"
    /\ \E p \in pathsOf(calc.signal, calc.L) :
          /\ p[1] = 2
          /\ itemAt(calc.signal, calc.L, p).data.type = "Sum"
          /\ itemAt(calc.signal, calc.L, p).data.isMonotonic
          /\ p[4] = 2
    /\ \E p \in pathsOf(calc.signal, calc.L) :
          itemAt(calc.signal, calc.L, p).data.type = "Histogram"

\* C30: Split of what Split returned is the same list, element by element
C30_SplitIdempotent ==
    calc.op = "resplit" => calc.again = calc.out

C30_Witness ==
    /\ calc.op = "resplit"
    /\ Len(calc.out) >= 3
    /\ calc.out # calc.L
    /\ calc.again = calc.out

----------------------------------------------------------------------------
(* Claims about dispatch against concurrent registration *)

\* the registrations a call runs with: the ids of the layers of its chain
usedBy(q) == {q.chain[i].id : i \in 1..Len(q.chain)}

\* the middleware registrations that apply to a call of signal s
middlewareFor(s) ==
    Range(muxMiddlewares)
        \cup (IF s \in DOMAIN entries THEN Range(entries[s].middlewares) ELSE {})

\* C31 (as claimed): the chain a call runs is the one of a single instant:
\* it holds no registration that completed later than a middleware
\* registration it lacks
C31_SingleInstantSnapshot ==
    \A r \in Requesters :
        LET q == req[r] IN
        (q.pc \in {"run", "done"} /\ q.chain # <<>>) =>
            \A x \in usedBy(q) :
                \A y \in middlewareFor(q.sig) \ usedBy(q) : x < y

\* a call is inside a middleware or the handler
running(r) == req[r].pc = "run"

C33_OneEntryPerSignal ==
    /\ \A s \in Signals :
          /\ acc.made[s] <= 1
          /\ acc.routes[s] = acc.made[s]
          /\ acc.made[s] = 1 <=> s \in DOMAIN entries
    /\ \A a \in Accessors :
          acc.call[a].pc = "done" =>
              /\ acc.call[a].ret # 0
              /\ acc.call[a].ret = acc.current[acc.call[a].sig]
    /\ \A a, b \in Accessors :
          ( /\ acc.call[a].pc = "done"
            /\ acc.call[b].pc = "done"
            /\ acc.call[a].sig = acc.call[b].sig )
          => acc.call[a].ret = acc.call[b].ret

\* two calls for one signal both found no entry, both went on to
\* new<Signal>Entry, and both have returned
C33_Witness ==
    \E a, b \in Accessors :
        /\ a # b
        /\ acc.call[a].pc = "done" /\ acc.call[a].viaNew
        /\ acc.call[b].pc = "done" /\ acc.call[b].viaNew
        /\ acc.call[a].sig = acc.call[b].sig

\* the call ended at the boundary between the cross-signal and the
\* per-signal layers with a message of another type: as the request handed
\* inwards, or as the response handed outwards
wrongTypeAtBoundary(q) ==
    /\ q.pc \in {"done", "panicked"}
    /\ \/ q.retyped = "response"
       \/ q.retyped = "request" /\ q.chain[q.idx].kind # "cross"

\* C34 (as claimed): a call in which the cross-signal middleware handed on a
\* request or a response of another type ends with Internal, and the server
\* goes on serving
C34_WrongTypeIsInternal ==
    \A r \in Requesters :
        wrongTypeAtBoundary(req[r]) =>
            /\ req[r].code = "Internal"
            /\ ~serverDown

----------------------------------------------------------------------------
(* Claims about the channel tables *)

\* the fingerprints of the signals that use binary RPC
grpcFingerprints ==
    {grpcConnectionInfo(cfg[s]) : s \in {x \in Signals : isGRPCProtocol(cfg[x])}}

\* C35: no step of Start replaces a channel, a stop context or a cancel
\* function that is in the tables, a Start that finds every channel open
\* opens none, and when a Start has returned there are as many open channels
\* as the binary-RPC signals have distinct fingerprints
C35_StartIdempotent ==
    /\ [](start.pc = "done" /\ start.err = "nil" =>
             /\ DOMAIN conns = grpcFingerprints
             /\ Cardinality(Range(conns)) = Cardinality(grpcFingerprints)
             /\ Range(conns) \cap closedChans = {})
    /\ [][start.pc \in {"pending", "body"} =>
             /\ \A k \in DOMAIN conns :
                   k \in DOMAIN conns' /\ conns'[k] = conns[k]
             /\ \A k \in DOMAIN stopContexts :
                   k \in DOMAIN stopContexts' /\ stopContexts'[k] = stopContexts[k]
             /\ \A k \in DOMAIN stopFuncs :
                   k \in DOMAIN stopFuncs' /\ stopFuncs'[k] = stopFuncs[k]
             /\ grpcFingerprints \subseteq DOMAIN conns => nextId' = nextId]_vars

\* a second Start has returned for a client with two channels open
C35_Witness ==
    /\ nStarts = 2
    /\ start.pc = "done"
    /\ start.err = "nil"
    /\ Cardinality(Range(conns)) = 2
    /\ \A id \in Range(conns) : id <= 2

\* a step in which Stop ranges over c.stopFuncs (select, case <-ctx.Done())
stopReadsTables(p) == stop[p].pc = "select" /\ stop'[p].pc = "waitacq"

\* a step in which an upload looks its channel and stop context up
uploadReadsTables(u) == up[u].pc \in {"idle", "done"} /\ up'[u] # up[u]

\* C36: a table changes only in a step of the call that holds the write
\* lock, an upload reads the tables only while no writer holds the lock, and
\* Stop reads the cancel-function table only once its write lock is granted,
\* so never while a Start is between its first and its last table update
C36_TablesUnderLock ==
    [][/\ <<conns, stopContexts, stopFuncs>>' # <<conns, stopContexts, stopFuncs>>
            => wHeld
       /\ \A u \in Uploaders : uploadReadsTables(u) => ~wHeld
       /\ \A p \in Stoppers :
             stopReadsTables(p) => stop[p].lk = "acquired" /\ start.pc # "body"]_vars

\* no Start and no Stop call is between its first and its last step
noStartOrStopInProgress ==
    /\ start.pc \in {"idle", "done"}
    /\ \A p \in Stoppers : stop[p].pc \in {"idle", "done"}

\* the step in which Stop returns
stopReturns(p) == stop[p].pc \in {"select", "waitacq"} /\ stop'[p].pc = "done"

\* C37: while no Start or Stop is in progress the three tables have the same
\* keys, and when Stop returns the three tables are empty and every stop
\* context that was in the table is done
C37_TablesAgreeAndReleased ==
    /\ [](noStartOrStopInProgress =>
             /\ DOMAIN conns = DOMAIN stopContexts
             /\ DOMAIN conns = DOMAIN stopFuncs)
    /\ [][\A p \in Stoppers : stopReturns(p) =>
             /\ conns' = <<>> /\ stopContexts' = <<>> /\ stopFuncs' = <<>>
             /\ \A id \in Range(stopContexts) : stopCtxDone(id)]_vars

\* C38: binary-RPC signals with the same fingerprint, and so, once Start has
\* returned, served by the same channel, have equal (host, user-agent, TLS,
\* gzip) tuples
C38_FingerprintInjective ==
    \A s, t \in Signals :
        (isGRPCProtocol(cfg[s]) /\ isGRPCProtocol(cfg[t])) =>
            /\ grpcConnectionInfo(cfg[s]) = grpcConnectionInfo(cfg[t])
                   => fingerprintTuple(cfg[s]) = fingerprintTuple(cfg[t])
            /\ ( /\ start.pc = "done"
                 /\ connOf(grpcConnectionInfo(cfg[s])) # 0
                 /\ connOf(grpcConnectionInfo(cfg[s])) = connOf(grpcConnectionInfo(cfg[t])) )
                   => fingerprintTuple(cfg[s]) = fingerprintTuple(cfg[t])

----------------------------------------------------------------------------
(* Claims about a middleware that ends the call *)

\* the call ended because a middleware returned an error carrying an RPC
\* status instead of calling next
rejectedByMiddleware(q) ==
    /\ q.pc = "done"
    /\ q.log # <<>>
    /\ q.log[Len(q.log)].layer.kind # "handler"
    /\ q.returned \in (Codes \cup {UnnamedCode}) \ {"OK"}

\* C39: when a middleware returns a status error without calling next, the
\* layers that ran are the chain up to that middleware, the handler is not
\* among them, and the caller is given the error's code, on HTTP as the
\* status mapped from it (401 for Unauthenticated, 403 for PermissionDenied)
C39_MiddlewareShortCircuit ==
    \A r \in Requesters :
        LET q == req[r] IN
        rejectedByMiddleware(q) =>
            /\ Len(q.log) < Len(q.chain)
            /\ \A i \in 1..Len(q.log) :
                  q.log[i].layer = q.chain[i] /\ q.log[i].layer.kind # "handler"
            /\ q.code = q.returned
            /\ q.transport = "http" =>
                  /\ q.status = grpcCodeToHTTPStatus(q.returned)
                  /\ q.returned = "Unauthenticated" => q.status = 401
                  /\ q.returned = "PermissionDenied" => q.status = 403

\* the per-signal middleware, reached through the cross-signal one, ended an
\* HTTP call with PermissionDenied and the call was answered 403
C39_Witness ==
    \E r \in Requesters :
        /\ rejectedByMiddleware(req[r])
        /\ req[r].transport = "http"
        /\ Len(req[r].log) = 2
        /\ req[r].returned = "PermissionDenied"
        /\ req[r].status = 403

----------------------------------------------------------------------------
(* Claims about starting again after Stop *)

\* a Stop that closed channels has returned and no Stop is in progress
stopHasReturned ==
    \A p \in Stoppers : stop[p].pc = "done" /\ stop[p].closed # {}

\* the step in which Start returns nil
startReturns == start.pc = "body" /\ start'.pc = "done" /\ start'.err = "nil"

\* Start has returned nil after the latest Stop returned: the lock orders the
\* two calls, and the tables Stop emptied hold channels again
restarted ==
    /\ stopHasReturned
    /\ start.pc = "done" /\ start.err = "nil"
    /\ DOMAIN conns # {}

\* C40: a Start that returns after a Stop has returned leaves one channel
\* per fingerprint, none of them closed and none with a stop context that
\* was cancelled or a number the Stop closed; a binary-RPC upload called
\* from then on is sent, on an open channel under such a stop context, and
\* does not end in ErrNotStarted
C40_RestartAfterStop ==
    /\ [][(startReturns /\ stopHasReturned) =>
             /\ DOMAIN conns' = grpcFingerprints
             /\ Range(conns') \cap closedChans' = {}
             /\ Range(stopContexts') \cap stopCancelled' = {}
             /\ \A p \in Stoppers :
                   (Range(conns') \cup Range(stopContexts')) \cap stop[p].closed = {}]_vars
    /\ [][\A u \in Uploaders :
             (restarted /\ uploadReadsTables(u) /\ isGRPCProtocol(cfg[up'[u].sig])) =>
                 /\ up'[u].pc = "inflight"
                 /\ up'[u].sent
                 /\ up'[u].result.err # "ErrNotStarted"
                 /\ ~up'[u].cancelled
                 /\ up'[u].conn # 0
                 /\ up'[u].conn \notin closedChans
                 /\ up'[u].stopCtx # 0
                 /\ up'[u].stopCtx \notin stopCancelled]_vars

\* after a Stop with a cancelled context closed the first channels, a second
\* Start has returned and an upload is in flight on a channel it opened
C40_Witness ==
    /\ restarted
    /\ nStarts = 2
    /\ \A p \in Stoppers : stop[p].err = "ctx"
    /\ \E u \in Uploaders :
          /\ up[u].pc = "inflight"
          /\ isGRPCProtocol(cfg[up[u].sig])
          /\ up[u].conn \in Range(conns)
          /\ up[u].conn \notin closedChans
          /\ ~stopCtxDone(up[u].stopCtx)

====
